---- MODULE Spec2Model ----
(***************************************************************************)
(* Task lifecycle of the marketing-team backend.                           *)
(*                                                                         *)
(* The backend is one asyncio event loop.  Code between two awaits runs    *)
(* atomically; every await on the database (select, commit, refresh,       *)
(* insert, delete) is a suspension point.  A coroutine is therefore        *)
(* modelled as an alternation of                                           *)
(*   - a loop step: the code from one resumption to the next await, and    *)
(*   - a database step: the awaited statement taking effect on the store.  *)
(* MarketingCrewService.execute_marketing_task is a plain synchronous call *)
(* inside the coroutine, so it is part of the loop step that makes it.     *)
(***************************************************************************)
EXTENDS Integers, Sequences, FiniteSets, TLC

\* ---------------------------------------------------------------- bounds
MaxTasks  == 2      \* rows that POST /tasks may create
MaxReq    == 1      \* request handlers that may be in flight together
MaxFaults == 1      \* database statements that may fail for external reasons
MaxCalls  == 3      \* requests the API receives in one behaviour
MaxLen    == 8      \* lines of a transcript made of post, idea and other lines
ShortLen  == 3      \* lines of a transcript made of any lines
MaxList   == 3      \* entries of a list the console receives

Ids      == 1..MaxTasks
ExecProc == 1..MaxTasks                          \* background run of task i
ReqProc  == (MaxTasks + 1)..(MaxTasks + MaxReq)  \* request handler slots
Procs    == ExecProc \cup ReqProc

\* ------------------------------------------------------- shared/models.py
PENDING     == "pending"
IN_PROGRESS == "in_progress"
COMPLETED   == "completed"
FAILED      == "failed"
CANCELLED   == "cancelled"
TaskStatus  == {PENDING, IN_PROGRESS, COMPLETED, FAILED, CANCELLED}
Terminal    == {COMPLETED, FAILED, CANCELLED}

\* None for string-valued columns; None for text columns is <<>> (NoText)
NULL   == "NULL"
\* A text is the sequence of its lines ("\n" separated): "" is <<"">>,
\* "a\nb" is <<"a","b">>; the absent text (None) is <<>>.
NoText    == <<>>
EmptyText == <<"">>

Topics    == {"Launch eco-friendly product line"}
Languages == {NULL}

\* ---------------------------------------------------- backend/db_models.py
Fields == {"task_id", "topic", "language", "status", "created_at",
           "completed_at", "result", "content_strategy", "social_media_posts",
           "blog_outline", "campaign_ideas", "error_message"}

\* variant: a new row is stamped as finished
MarketingTaskStamped(task_id, topic, language) ==
    [task_id |-> task_id, topic |-> topic, language |-> language,
     status |-> PENDING, created_at |-> 0,
     completed_at |-> TRUE, result |-> NoText, content_strategy |-> NoText,
     social_media_posts |-> NoText, blog_outline |-> NoText,
     campaign_ideas |-> NoText, error_message |-> NULL]

\* created_at is a timestamp of the database clock, 0 while the server
\* default has not been applied or loaded
MarketingTask(task_id, topic, language) ==
    [task_id |-> task_id, topic |-> topic, language |-> language,
     status |-> PENDING, created_at |-> 0,
     completed_at |-> FALSE, result |-> NoText, content_strategy |-> NoText,
     social_media_posts |-> NoText, blog_outline |-> NoText,
     campaign_ideas |-> NoText, error_message |-> NULL]

NoRow == MarketingTask(0, "", NULL)

\* ------------------------------------------ services/marketing_crew.py
\* Lines the pipeline transcript is made of, with the keywords their
\* lowercase form contains and their stripped form.
Lines == {"Our content strategy", "  Twitter: news", "Instagram: launch",
          "Blog outline", "Campaign idea one", "filler"}

LowerContains(line) ==
    CASE line = "Our content strategy" -> {"content", "strategy"}
      [] line = "  Twitter: news"      -> {"twitter"}
      [] line = "Instagram: launch"    -> {"instagram"}
      [] line = "Blog outline"         -> {"blog", "outline"}
      [] line = "Campaign idea one"    -> {"campaign", "idea"}
      [] OTHER                         -> {}

Strip(line) == IF line = "  Twitter: news" THEN "Twitter: news" ELSE line

TextContains(text, kws) ==
    \E k \in 1..Len(text) : LowerContains(text[k]) \cap kws # {}

RECURSIVE FilterLines(_, _)
FilterLines(text, kws) ==
    IF text = <<>> THEN <<>>
    ELSE IF LowerContains(Head(text)) \cap kws # {}
         THEN <<Strip(Head(text))>> \o FilterLines(Tail(text), kws)
         ELSE FilterLines(Tail(text), kws)

Take(s, n) == SubSeq(s, 1, IF Len(s) < n THEN Len(s) ELSE n)

PostsCap == 7
IdeasCap == 5

_extract_content_strategy(result) ==
    IF TextContains(result, {"strategy", "content"}) THEN result ELSE NoText

\* variant: one more post is let through
_extract_social_posts_8(result) ==
    Take(FilterLines(result, {"instagram", "twitter", "linkedin", "facebook"}),
         PostsCap + 1)

_extract_social_posts(result) ==
    Take(FilterLines(result, {"instagram", "twitter", "linkedin", "facebook"}),
         PostsCap)

\* variant: the outline is the transcript whatever it contains
_extract_blog_outline_any(result) == result

_extract_blog_outline(result) ==
    IF TextContains(result, {"blog", "outline"}) THEN result ELSE NoText

_extract_campaign_ideas(result) ==
    Take(FilterLines(result, {"campaign", "idea"}), IdeasCap)

\* What the external crew does in one call: building the crew may raise,
\* kickoff may raise, or kickoff returns a transcript.
Transcripts == {<<"filler">>,
                <<"Our content strategy", "  Twitter: news",
                  "Blog outline", "Campaign idea one">>}

CrewBehaviours ==
    {[construct |-> FALSE, kickoff |-> FALSE, transcript |-> NoText],
     [construct |-> TRUE,  kickoff |-> FALSE, transcript |-> NoText]}
    \cup {[construct |-> TRUE, kickoff |-> TRUE, transcript |-> t] :
            t \in Transcripts}

ConstructError == "crew construction failed"
KickoffError   == "rate limited"

\* execute_marketing_task: create_marketing_crew is called before the try,
\* crew.kickoff() inside it.
execute_marketing_task(topic, language, crew) ==
    IF ~crew.construct
    THEN [raised |-> TRUE, exc |-> ConstructError]
    ELSE IF crew.kickoff
    THEN [raised |-> FALSE,
          bundle |-> [status |-> COMPLETED,
                      topic |-> topic,
                      result |-> crew.transcript,
                      content_strategy |->
                          _extract_content_strategy(crew.transcript),
                      social_media_posts |->
                          _extract_social_posts(crew.transcript),
                      blog_outline |-> _extract_blog_outline(crew.transcript),
                      campaign_ideas |->
                          _extract_campaign_ideas(crew.transcript)]]
    ELSE [raised |-> FALSE,
          bundle |-> [status |-> FAILED, topic |-> topic,
                      error_message |-> KickoffError]]

\* dict.get(key, default)
Get(d, key, default) == IF key \in DOMAIN d THEN d[key] ELSE default

\* variant: only the first line is kept
JoinFirst(list) == IF list = <<>> THEN EmptyText ELSE <<Head(list)>>

\* "\n".join(list) of single-line strings
Join(list) == IF list = <<>> THEN EmptyText ELSE list

\* text.split("\n")
Split(text) == text

\* truthiness of an Optional[str] column
Truthy(text) == text # NoText /\ text # EmptyText

\* ------------------------------------------------------------------ state
VARIABLES
    db,        \* marketing_tasks: the committed row of every identifier
    exists,    \* identifiers that have a committed row
    running,   \* TaskService._running_tasks: "absent", "true" or "false"
    proc,      \* coroutines: background runs and request handlers
    nextId,    \* next identifier uuid4() hands out
    invoked,   \* identifiers for which the pipeline service was called
    faults,    \* database statements that failed for external reasons
    clock,     \* the database's CURRENT_TIMESTAMP
    calls,     \* requests received so far
    ui,        \* the console: its session state and what the last run showed
    call       \* one call of the pipeline service and what is made of its result

\* the variables of the backend
backend == <<db, exists, running, proc, nextId, invoked, faults, clock, calls>>

vars == <<db, exists, running, proc, nextId, invoked, faults, clock, calls,
          ui, call>>

\* ------------------------------------------------ shared/models.py (cont.)
NoList == [present |-> FALSE, items |-> <<>>]
SomeList(items) == [present |-> TRUE, items |-> items]

NoResult ==
    [task_id |-> 0, topic |-> "", status |-> "", created_at |-> 0,
     completed_at |-> FALSE,
     content_strategy |-> NoText, social_media_posts |-> NoList,
     blog_outline |-> NoText, campaign_ideas |-> NoList,
     error_message |-> NULL]

\* a response (or return value): status code, detail, one task, a task list
NoResp == [code |-> 0, detail |-> "", task |-> NoResult, tasks |-> <<>>]

\* ---------------------------------------------------- coroutine records
\* kind : which handler runs ("exec", "create", "cancel", "delete", "none")
\* st   : "idle", "scheduled", "wait" (statement issued), "ok"/"err"
\*        (statement finished, coroutine not yet resumed), "done", "crashed"
\* op/at: the awaited statement and the source line that awaits it
\* has/task/dirty/expired: the session's ORM object for the row
\* rows/objs/k: identifiers and objects a list query loaded, loop position
IdleProc ==
    [kind |-> "none", id |-> 0, st |-> "idle", op |-> "none", at |-> "none",
     exc |-> "", cause |-> "", has |-> FALSE, task |-> NoRow, dirty |-> {},
     expired |-> FALSE, rows |-> <<>>, objs |-> <<>>, k |-> 0,
     resp |-> NoResp]

\* attribute assignment on the ORM object: the column goes into the next
\* UPDATE only when the value differs from the loaded one
Set(r, f, v) ==
    [r EXCEPT !.task[f] = v,
              !.dirty = IF r.expired \/ r.task[f] # v THEN @ \cup {f} ELSE @]

\* variant: stamping the end time also rewrites the topic
SetNowRetitled(r) ==
    [r EXCEPT !.task.completed_at = TRUE, !.task.topic = "",
              !.dirty = @ \cup {"completed_at", "topic"}]

\* task.completed_at = datetime.now(): always a new value
SetNow(r) ==
    [r EXCEPT !.task.completed_at = TRUE, !.dirty = @ \cup {"completed_at"}]

Issue(r, op, at) == [r EXCEPT !.op = op, !.at = at, !.st = "wait"]

Return(r, resp) ==
    [IdleProc EXCEPT !.kind = r.kind, !.id = r.id, !.st = "done",
                     !.resp = resp]

\* a return whose line is kept for the caller to tell the exits apart
ReturnAt(r, resp, at) == [Return(r, resp) EXCEPT !.at = at]

Raise500(r, detail) ==
    Return(r, [NoResp EXCEPT !.code = 500, !.detail = detail])

\* self._running_tasks.get(task_id, False)
RunningGet(reg, id) == reg[id] = "true"

RunningSet(reg, id, b) ==
    [reg EXCEPT ![id] = IF b THEN "true" ELSE "false"]

\* variant: popping one entry empties the registry
RunningPopAll(reg, id) == [j \in DOMAIN reg |-> "absent"]

RunningPop(reg, id) == [reg EXCEPT ![id] = "absent"]

Resumed(p, at, st) ==
    /\ proc[p].st = st
    /\ proc[p].at = at

\* no call of the pipeline service under study
NoCall ==
    [stage |-> "none", transcript |-> NoText, bundle |-> [status |-> "none"],
     row |-> NoRow, result |-> NoResult]

\* the console before its first run: an empty session state
NoPress == [control |-> "none", id |-> 0]
NoCalled == [op |-> "none", id |-> 0, status |-> "none", outcome |-> "none"]

NoUi ==
    [backend_ok |-> "unset", show_connection_error |-> "unset",
     page |-> "Create Task", task_created_success |-> FALSE,
     task_created_topic |-> "", last_task_id |-> 0, selected_task_id |-> 0,
     rerun |-> "none", pressed |-> NoPress,
     event |-> "none", after |-> "none", topic |-> "", outcome |-> "none",
     posted |-> 0, fetched |-> 0, shown |-> {}, listed |-> <<>>,
     tasks |-> <<>>, cards |-> <<>>, detail |-> <<>>, buttons |-> {},
     called |-> NoCalled, told |-> FALSE]

BackendInit ==
    /\ db = [i \in Ids |-> NoRow]
    /\ exists = {}
    /\ running = [i \in Ids |-> "absent"]
    /\ proc = [p \in Procs |-> IdleProc]
    /\ nextId = 1
    /\ invoked = {}
    /\ faults = 0
    /\ clock = 1
    /\ calls = 0

Init ==
    /\ BackendInit
    /\ ui = NoUi
    /\ call = NoCall

\* --------------------------------------------------- database statements
DbError      == "database is locked"
StaleError   == "UPDATE statement expected to update 1 row(s); 0 were matched"
RefreshError == "Could not refresh instance"

Awaiting(p, op) ==
    /\ proc[p].st = "wait"
    /\ proc[p].op = op

\* select(MarketingTask).where(task_id == id): an expired or new object is
\* loaded from the row, a live object of the identity map is kept
DbSelect(p) ==
    /\ Awaiting(p, "select")
    /\ LET r == proc[p] IN
       proc' = [proc EXCEPT ![p] =
          IF r.id \in exists
          THEN [r EXCEPT !.st = "ok", !.has = TRUE,
                         !.task = IF r.has /\ ~r.expired THEN @ ELSE db[r.id],
                         !.dirty = IF r.has /\ ~r.expired THEN @ ELSE {},
                         !.expired = FALSE]
          ELSE [r EXCEPT !.st = "ok", !.has = FALSE, !.task = NoRow,
                         !.dirty = {}, !.expired = FALSE]]
    /\ UNCHANGED <<db, exists, running, nextId, invoked, faults, clock,
                   calls, ui, call>>

\* variant: ascending order
OrderByCreatedAtAsc(ids) ==
    {s \in [1..Cardinality(ids) -> ids] :
        \A a, b \in 1..Cardinality(ids) :
            a < b => /\ s[a] # s[b]
                     /\ db[s[a]].created_at <= db[s[b]].created_at}

\* rows of the table in an order that ORDER BY created_at DESC may produce
\* (rows with equal timestamps come in any order)
OrderByCreatedAtDesc(ids) ==
    {s \in [1..Cardinality(ids) -> ids] :
        \A a, b \in 1..Cardinality(ids) :
            a < b => /\ s[a] # s[b]
                     /\ db[s[a]].created_at >= db[s[b]].created_at}

\* select(MarketingTask).order_by(MarketingTask.created_at.desc())
DbSelectAll(p) ==
    /\ Awaiting(p, "select_all")
    /\ \E s \in OrderByCreatedAtDesc(exists) :
         proc' = [proc EXCEPT ![p].st = "ok", ![p].rows = s,
                              ![p].objs = [k \in 1..Len(s) |-> db[s[k]]]]
    /\ UNCHANGED <<db, exists, running, nextId, invoked, faults, clock,
                   calls, ui, call>>

\* db.commit(): flushes an UPDATE of the changed columns, then commits; an
\* UPDATE that matches no row raises and the session rolls back (the object
\* is expired and its pending changes are dropped)
\* variant: a commit of changes to a missing row writes the row anew
DbCommitUpserts(p) ==
    /\ Awaiting(p, "commit")
    /\ LET r == proc[p] IN
       IF r.dirty = {}
       THEN /\ proc' = [proc EXCEPT ![p].st = "ok"]
            /\ db' = db
            /\ exists' = exists
       ELSE /\ db' = [db EXCEPT ![r.id] =
                        [f \in Fields |-> IF f \in r.dirty THEN r.task[f]
                                          ELSE db[r.id][f]]]
            /\ exists' = exists \cup {r.id}
            /\ proc' = [proc EXCEPT ![p].st = "ok", ![p].dirty = {},
                                    ![p].expired = FALSE]
    /\ UNCHANGED <<running, nextId, invoked, faults, clock, calls, ui, call>>

DbCommit(p) ==
    /\ Awaiting(p, "commit")
    /\ LET r == proc[p] IN
       IF r.dirty = {}
       THEN /\ proc' = [proc EXCEPT ![p].st = "ok"]
            /\ db' = db
       ELSE IF r.id \in exists
       THEN /\ db' = [db EXCEPT ![r.id] =
                        [f \in Fields |-> IF f \in r.dirty THEN r.task[f]
                                          ELSE db[r.id][f]]]
            /\ proc' = [proc EXCEPT ![p].st = "ok", ![p].dirty = {},
                                    ![p].expired = FALSE]
       ELSE /\ db' = db
            /\ proc' = [proc EXCEPT ![p].st = "err", ![p].exc = StaleError,
                                    ![p].dirty = {}, ![p].expired = TRUE]
    /\ UNCHANGED <<exists, running, nextId, invoked, faults, clock, calls,
                   ui, call>>

\* db.refresh(task)
DbRefresh(p) ==
    /\ Awaiting(p, "refresh")
    /\ LET r == proc[p] IN
       proc' = [proc EXCEPT ![p] =
          IF r.id \in exists
          THEN [r EXCEPT !.st = "ok", !.task = db[r.id], !.dirty = {},
                         !.expired = FALSE]
          ELSE [r EXCEPT !.st = "err", !.exc = RefreshError,
                         !.expired = TRUE]]
    /\ UNCHANGED <<db, exists, running, nextId, invoked, faults, clock,
                   calls, ui, call>>

\* db.add(task); db.flush(); db.commit(): the INSERT applies the server
\* default of created_at, the current time of the database clock, which may
\* or may not have advanced since the previous INSERT (an advance can only
\* be told from none when a stored row carries the previous time)
DbInsert(p) ==
    /\ Awaiting(p, "insert")
    /\ \E now \in {clock} \cup {clock + 1 : i \in
                       {j \in exists : db[j].created_at = clock}} :
         /\ clock' = now
         /\ db' = [db EXCEPT ![proc[p].id] =
                      [proc[p].task EXCEPT !.created_at = now]]
    /\ exists' = exists \cup {proc[p].id}
    /\ proc' = [proc EXCEPT ![p].st = "ok"]
    /\ UNCHANGED <<running, nextId, invoked, faults, calls, ui, call>>

\* variant: the DELETE matches no row
DbDeleteKeeps(p) ==
    /\ Awaiting(p, "delete")
    /\ proc' = [proc EXCEPT ![p].st = "ok"]
    /\ UNCHANGED <<db, exists, running, nextId, invoked, faults, clock,
                   calls, ui, call>>

\* db.execute(delete(MarketingTask).where(...)); db.commit()
DbDelete(p) ==
    /\ Awaiting(p, "delete")
    /\ db' = [db EXCEPT ![proc[p].id] = NoRow]
    /\ exists' = exists \ {proc[p].id}
    /\ proc' = [proc EXCEPT ![p].st = "ok"]
    /\ UNCHANGED <<running, nextId, invoked, faults, clock, calls, ui, call>>

\* any awaited statement may fail for reasons outside the program (locked
\* file, lost connection); nothing is written and the session rolls back
DbFault(p) ==
    /\ proc[p].st = "wait"
    /\ faults < MaxFaults
    /\ faults' = faults + 1
    /\ proc' = [proc EXCEPT ![p].st = "err", ![p].exc = DbError,
                            ![p].dirty = {}, ![p].expired = TRUE]
    /\ UNCHANGED <<db, exists, running, nextId, invoked, clock, calls, ui,
                   call>>

\* -------------------------------- main.py create_task / TaskService.create_task
\* a request is received by an idle handler slot
Accept(p) ==
    /\ p \in ReqProc
    /\ proc[p].st \in {"idle", "done"}
    /\ calls < MaxCalls
    /\ calls' = calls + 1

CreateStart(p, topic, language) ==
    /\ Accept(p)
    /\ nextId \in Ids
    /\ nextId' = nextId + 1
    /\ proc' = [proc EXCEPT ![p] =
          Issue([IdleProc EXCEPT !.kind = "create", !.id = nextId,
                                 !.has = TRUE,
                                 !.task = MarketingTask(nextId, topic,
                                                        language)],
                "insert", "L41")]
    /\ UNCHANGED <<db, exists, running, invoked, faults, clock, ui, call>>

CreateError(e) == "Error creating task: " \o e

CreateAfterCommit(p) ==
    /\ proc[p].kind = "create"
    /\ \/ /\ Resumed(p, "L41", "ok")
          /\ proc' = [proc EXCEPT ![p] = Issue(@, "refresh", "L43")]
       \/ /\ Resumed(p, "L41", "err")
          /\ proc' = [proc EXCEPT ![p] = Raise500(@, CreateError(@.exc))]
    /\ UNCHANGED <<db, exists, running, nextId, invoked, faults, clock,
                   calls, ui, call>>

MarketingTaskResponse(id, task) ==
    [NoResp EXCEPT !.code = 200,
                   !.task = [NoResult EXCEPT !.task_id = id,
                                             !.topic = task.topic,
                                             !.status = task.status,
                                             !.created_at = task.created_at]]

\* background_tasks.add_task(task_service.execute_task_async, task.task_id)
\* variant: the response is returned and no background run is scheduled
AddTaskDropped(pr, id) == pr

AddTask(pr, id) ==
    [pr EXCEPT ![id] = [IdleProc EXCEPT !.kind = "exec", !.id = id,
                                        !.st = "scheduled"]]

CreateAfterRefresh(p) ==
    /\ proc[p].kind = "create"
    /\ \/ /\ Resumed(p, "L43", "ok")
          /\ proc' = [AddTask(proc, proc[p].id) EXCEPT ![p] =
                Return(@, MarketingTaskResponse(proc[p].id, proc[p].task))]
       \/ /\ Resumed(p, "L43", "err")
          /\ proc' = [proc EXCEPT ![p] = Raise500(@, CreateError(@.exc))]
    /\ UNCHANGED <<db, exists, running, nextId, invoked, faults, clock,
                   calls, ui, call>>

\* ------------------------------------------- TaskService.execute_task_async
\* the coroutine starts after the creation response was sent: it opens its
\* own session and calls execute_task, which awaits get_task (line 81)
ExecBegin(i) ==
    /\ i \in ExecProc
    /\ proc[i].st = "scheduled"
    /\ proc' = [proc EXCEPT ![i] = Issue(@, "select", "L81")]
    /\ UNCHANGED <<db, exists, running, nextId, invoked, faults, clock,
                   calls, ui, call>>

ExecutionError(e) == "Execution error: " \o e

\* lines 63-68: an exception left execute_task; log it and look the row up
Sink(r, e) == Issue([r EXCEPT !.cause = e], "select", "L68")

\* variant: the best-effort update is not guarded, its failure propagates
SinkPropagates(r) == [r EXCEPT !.st = "crashed"]

\* lines 74-75: the bare except around the best-effort update
SinkSwallow(r) == Return(r, NoResp)

\* lines 69-73
SinkAfterGet(i) ==
    /\ proc[i].kind = "exec"
    /\ \/ /\ Resumed(i, "L68", "ok")
          /\ proc' = [proc EXCEPT ![i] =
                IF @.has
                THEN Issue(SetNow(Set(Set(@, "status", FAILED),
                                      "error_message",
                                      ExecutionError(@.cause))),
                           "commit", "L73")
                ELSE Return(@, NoResp)]
       \/ /\ Resumed(i, "L68", "err")
          /\ proc' = [proc EXCEPT ![i] = SinkSwallow(@)]
    /\ UNCHANGED <<db, exists, running, nextId, invoked, faults, clock,
                   calls, ui, call>>

SinkAfterCommit(i) ==
    /\ proc[i].kind = "exec"
    /\ \/ /\ Resumed(i, "L73", "ok")
          /\ proc' = [proc EXCEPT ![i] = Return(@, NoResp)]
       \/ /\ Resumed(i, "L73", "err")
          /\ proc' = [proc EXCEPT ![i] = SinkSwallow(@)]
    /\ UNCHANGED <<db, exists, running, nextId, invoked, faults, clock,
                   calls, ui, call>>

\* ------------------------------------------------ TaskService.execute_task
\* a service method returns the row object: recorded by its columns
RowReturned(task) ==
    [NoResp EXCEPT !.task =
        [NoResult EXCEPT !.task_id = task.task_id, !.topic = task.topic,
                         !.status = task.status,
                         !.created_at = task.created_at,
                         !.completed_at = task.completed_at,
                         !.error_message = task.error_message]]

\* variant: the registry entry is made before the status is looked at
ExecAfterGetEager(i) ==
    /\ proc[i].kind = "exec"
    /\ \/ /\ Resumed(i, "L81", "ok")
          /\ IF ~proc[i].has
             THEN /\ proc' = [proc EXCEPT ![i] = ReturnAt(@, NoResp, "L83")]
                  /\ running' = RunningSet(running, i, TRUE)
             ELSE IF proc[i].task.status = CANCELLED
             THEN /\ proc' = [proc EXCEPT ![i] =
                                 ReturnAt(@, RowReturned(@.task), "L87")]
                  /\ running' = RunningSet(running, i, TRUE)
             ELSE /\ running' = RunningSet(running, i, TRUE)
                  /\ proc' = [proc EXCEPT ![i] =
                        Issue(Set(@, "status", IN_PROGRESS), "commit", "L94")]
       \/ /\ Resumed(i, "L81", "err")
          /\ proc' = [proc EXCEPT ![i] = Sink(@, @.exc)]
          /\ running' = running
    /\ UNCHANGED <<db, exists, nextId, invoked, faults, clock, calls, ui,
                   call>>

\* lines 82-94
ExecAfterGet(i) ==
    /\ proc[i].kind = "exec"
    /\ \/ /\ Resumed(i, "L81", "ok")
          /\ IF ~proc[i].has
             THEN /\ proc' = [proc EXCEPT ![i] = ReturnAt(@, NoResp, "L83")]
                  /\ running' = running
             ELSE IF proc[i].task.status = CANCELLED
             THEN /\ proc' = [proc EXCEPT ![i] =
                                 ReturnAt(@, RowReturned(@.task), "L87")]
                  /\ running' = running
             ELSE /\ running' = RunningSet(running, i, TRUE)
                  /\ proc' = [proc EXCEPT ![i] =
                        Issue(Set(@, "status", IN_PROGRESS), "commit", "L94")]
       \/ /\ Resumed(i, "L81", "err")
          /\ proc' = [proc EXCEPT ![i] = Sink(@, @.exc)]
          /\ running' = running
    /\ UNCHANGED <<db, exists, nextId, invoked, faults, clock, calls, ui,
                   call>>

\* lines 98-102: cancelled before the pipeline was started
CancelBefore(r) ==
    Issue(Set(SetNow(Set(r, "status", CANCELLED)),
              "error_message", "Task was cancelled before execution"),
          "commit", "L102")

\* lines 112-116: cancelled while the pipeline ran
CancelDuring(r) ==
    Issue(Set(SetNow(Set(r, "status", CANCELLED)),
              "error_message", "Task was cancelled during execution"),
          "commit", "L116")

\* variant: the raw result is not stored
StoreResultNoRaw(r, result) ==
    Issue(
      Set(Set(Set(Set(SetNow(
        Set(r, "status", Get(result, "status", FAILED))),
        "content_strategy", Get(result, "content_strategy", NoText)),
        "social_media_posts", Join(Get(result, "social_media_posts", <<>>))),
        "blog_outline", Get(result, "blog_outline", NoText)),
        "campaign_ideas", Join(Get(result, "campaign_ideas", <<>>))),
      "commit", "L130")

\* lines 121-130: store the bundle
StoreResult(r, result) ==
    Issue(
      Set(Set(Set(Set(Set(SetNow(
        Set(r, "status", Get(result, "status", FAILED))),
        "result", Get(result, "result", EmptyText)),
        "content_strategy", Get(result, "content_strategy", NoText)),
        "social_media_posts", Join(Get(result, "social_media_posts", <<>>))),
        "blog_outline", Get(result, "blog_outline", NoText)),
        "campaign_ideas", Join(Get(result, "campaign_ideas", <<>>))),
      "commit", "L130")

StoreResultDone(r, result) ==
    Set(StoreResult(r, result), "error_message",
        Get(result, "error_message", NULL))

\* variant: the flag test of the except clause is inverted
ExceptHandlerInverted(r, reg, e) ==
    Issue(SetNow(
            IF RunningGet(reg, r.id)
            THEN Set(Set(r, "status", CANCELLED),
                     "error_message", "Task was cancelled")
            ELSE Set(Set(r, "status", FAILED), "error_message", e)),
          "commit", "L146")

\* lines 137-146: the except clause of execute_task
ExceptHandler(r, reg, e) ==
    Issue(SetNow(
            IF ~RunningGet(reg, r.id)
            THEN Set(Set(r, "status", CANCELLED),
                     "error_message", "Task was cancelled")
            ELSE Set(Set(r, "status", FAILED), "error_message", e)),
          "commit", "L146")

\* lines 96-130, resumed after the commit of in_progress: both checkpoints
\* and the pipeline call run without a suspension point in between.
\* execute_marketing_task is a plain (blocking) call at line 106, so no other
\* coroutine runs between the checkpoint of line 98 and the one of line 112:
\* the registry read at line 112 equals the one read at line 98, the branch
\* of lines 112-118 is never taken, and no step resumes from its commit.
ExecRun(i) ==
    /\ proc[i].kind = "exec"
    /\ \/ /\ Resumed(i, "L94", "ok")
          /\ IF ~RunningGet(running, i)
             THEN /\ proc' = [proc EXCEPT ![i] = CancelBefore(@)]
                  /\ invoked' = invoked
             ELSE /\ invoked' = invoked \cup {i}
                  /\ \E crew \in CrewBehaviours :
                       LET out == execute_marketing_task(
                                     proc[i].task.topic,
                                     proc[i].task.language, crew)
                       IN proc' = [proc EXCEPT ![i] =
                            IF out.raised
                            THEN ExceptHandler(@, running, out.exc)
                            ELSE IF ~RunningGet(running, i)
                            THEN CancelDuring(@)
                            ELSE StoreResultDone(@, out.bundle)]
       \/ /\ Resumed(i, "L94", "err")
          /\ proc' = [proc EXCEPT ![i] = Sink(@, @.exc)]
          /\ invoked' = invoked
    /\ UNCHANGED <<db, exists, running, nextId, faults, clock, calls, ui,
                   call>>

\* line 103 after the commit of line 102
ExecAfterCancelBefore(i) ==
    /\ proc[i].kind = "exec"
    /\ \/ /\ Resumed(i, "L102", "ok")
          /\ proc' = [proc EXCEPT ![i] = Return(@, NoResp)]
       \/ /\ Resumed(i, "L102", "err")
          /\ proc' = [proc EXCEPT ![i] = ExceptHandler(@, running, @.exc)]
    /\ UNCHANGED <<db, exists, running, nextId, invoked, faults, clock,
                   calls, ui, call>>

\* line 131 after the commit of line 130
ExecAfterStore(i) ==
    /\ proc[i].kind = "exec"
    /\ \/ /\ Resumed(i, "L130", "ok")
          /\ proc' = [proc EXCEPT ![i] = Issue(@, "refresh", "L131")]
       \/ /\ Resumed(i, "L130", "err")
          /\ proc' = [proc EXCEPT ![i] = ExceptHandler(@, running, @.exc)]
    /\ UNCHANGED <<db, exists, running, nextId, invoked, faults, clock,
                   calls, ui, call>>

\* lines 134-136 after the refresh of line 131
ExecAfterRefresh(i) ==
    /\ proc[i].kind = "exec"
    /\ \/ /\ Resumed(i, "L131", "ok")
          /\ proc' = [proc EXCEPT ![i] = Return(@, NoResp)]
          /\ running' = RunningPop(running, i)
       \/ /\ Resumed(i, "L131", "err")
          /\ proc' = [proc EXCEPT ![i] = ExceptHandler(@, running, @.exc)]
          /\ running' = running
    /\ UNCHANGED <<db, exists, nextId, invoked, faults, clock, calls, ui,
                   call>>

\* lines 147-148 after the commit of line 146
ExecAfterExcept(i) ==
    /\ proc[i].kind = "exec"
    /\ \/ /\ Resumed(i, "L146", "ok")
          /\ proc' = [proc EXCEPT ![i] = Return(@, NoResp)]
          /\ running' = RunningPop(running, i)
       \/ /\ Resumed(i, "L146", "err")
          /\ proc' = [proc EXCEPT ![i] = Sink(@, @.exc)]
          /\ running' = running
    /\ UNCHANGED <<db, exists, nextId, invoked, faults, clock, calls, ui,
                   call>>

\* ----------------------------------------------- TaskService.task_to_result
\* variant: the column is split whether or not it holds text
SplitColumnAlways(text) == SomeList(Split(text))

SplitColumn(text) == IF Truthy(text) THEN SomeList(Split(text)) ELSE NoList

task_to_result(id, task) ==
    [task_id |-> id, topic |-> task.topic, status |-> task.status,
     created_at |-> task.created_at,
     completed_at |-> task.completed_at,
     content_strategy |-> task.content_strategy,
     social_media_posts |-> SplitColumn(task.social_media_posts),
     blog_outline |-> task.blog_outline,
     campaign_ideas |-> SplitColumn(task.campaign_ideas),
     error_message |-> task.error_message]

Ok200(id, task) ==
    [NoResp EXCEPT !.code = 200, !.task = task_to_result(id, task)]

\* variant: an unknown identifier is answered with an empty success
NotFoundAsOk == [NoResp EXCEPT !.code = 200]

NotFound == [NoResp EXCEPT !.code = 404, !.detail = "Task not found"]

InternalError == "Internal Server Error"

\* ------------------------------- main.py get_task / TaskService.get_task
GetStart(p, id) ==
    /\ Accept(p)
    /\ proc' = [proc EXCEPT ![p] =
          Issue([IdleProc EXCEPT !.kind = "get", !.id = id],
                "select", "M110")]
    /\ UNCHANGED <<db, exists, running, nextId, invoked, faults, clock, ui,
                   call>>

\* main.py lines 111-114
GetAfterGet(p) ==
    /\ proc[p].kind = "get"
    /\ \/ /\ Resumed(p, "M110", "ok")
          /\ proc' = [proc EXCEPT ![p] =
                IF ~@.has THEN Return(@, NotFound)
                ELSE Return(@, Ok200(@.id, @.task))]
       \/ /\ Resumed(p, "M110", "err")
          /\ proc' = [proc EXCEPT ![p] = Raise500(@, InternalError)]
    /\ UNCHANGED <<db, exists, running, nextId, invoked, faults, clock,
                   calls, ui, call>>

\* -------------------------- main.py list_tasks / TaskService.get_all_tasks
ListStart(p) ==
    /\ Accept(p)
    /\ proc' = [proc EXCEPT ![p] =
          Issue([IdleProc EXCEPT !.kind = "list"], "select_all", "L177")]
    /\ UNCHANGED <<db, exists, running, nextId, invoked, faults, clock, ui,
                   call>>

ListResp(items) == [NoResp EXCEPT !.code = 200, !.tasks = items]

\* variant: the exception is not caught by the endpoint
ListFailedRaises(r) == Raise500(r, InternalError)

\* main.py lines 125-128: any exception gives the empty list
ListFailed(r) == Return(r, ListResp(<<>>))

\* lines 180-182 and main.py line 124: refresh the next object of the
\* list, or project the refreshed objects when none is left
NextItem(r) ==
    IF r.k < Len(r.rows)
    THEN Issue([r EXCEPT !.k = r.k + 1, !.id = r.rows[r.k + 1],
                         !.task = r.objs[r.k + 1], !.has = TRUE,
                         !.dirty = {}, !.expired = FALSE],
               "refresh", "L181")
    ELSE Return(r, ListResp([j \in 1..Len(r.rows) |->
                               task_to_result(r.rows[j], r.objs[j])]))

ListAfterSelect(p) ==
    /\ proc[p].kind = "list"
    /\ \/ /\ Resumed(p, "L177", "ok")
          /\ proc' = [proc EXCEPT ![p] = NextItem(@)]
       \/ /\ Resumed(p, "L177", "err")
          /\ proc' = [proc EXCEPT ![p] = ListFailed(@)]
    /\ UNCHANGED <<db, exists, running, nextId, invoked, faults, clock,
                   calls, ui, call>>

ListAfterRefresh(p) ==
    /\ proc[p].kind = "list"
    /\ \/ /\ Resumed(p, "L181", "ok")
          /\ proc' = [proc EXCEPT ![p] =
                NextItem([@ EXCEPT !.objs[proc[p].k] = proc[p].task])]
       \/ /\ Resumed(p, "L181", "err")
          /\ proc' = [proc EXCEPT ![p] = ListFailed(@)]
    /\ UNCHANGED <<db, exists, running, nextId, invoked, faults, clock,
                   calls, ui, call>>

\* --------------------------- main.py cancel_task / TaskService.cancel_task
CancelStart(p, id) ==
    /\ Accept(p)
    /\ proc' = [proc EXCEPT ![p] =
          Issue([IdleProc EXCEPT !.kind = "cancel", !.id = id],
                "select", "L154")]
    /\ UNCHANGED <<db, exists, running, nextId, invoked, faults, clock, ui,
                   call>>

\* variant: completed tasks can be cancelled too
CancellableOrCompleted(status) == status \in {PENDING, IN_PROGRESS, COMPLETED}

Cancellable(status) == status \in {PENDING, IN_PROGRESS}

\* variant: the cancel request does not set completed_at
MarkCancelledNoTime(r) ==
    Issue(Set(Set(r, "status", CANCELLED),
              "error_message", "Task was cancelled by user"),
          "commit", "L169")

\* lines 166-169
MarkCancelled(r) ==
    Issue(Set(SetNow(Set(r, "status", CANCELLED)),
              "error_message", "Task was cancelled by user"),
          "commit", "L169")

\* lines 155-169
CancelAfterGet(p) ==
    /\ proc[p].kind = "cancel"
    /\ \/ /\ Resumed(p, "L154", "ok")
          /\ IF ~proc[p].has
             THEN /\ proc' = [proc EXCEPT ![p] = Return(@, NotFound)]
                  /\ running' = running
             ELSE IF ~Cancellable(proc[p].task.status)
             THEN /\ proc' = [proc EXCEPT ![p] =
                                 Return(@, Ok200(@.id, @.task))]
                  /\ running' = running
             ELSE /\ running' = RunningSet(running, proc[p].id, FALSE)
                  /\ proc' = [proc EXCEPT ![p] = MarkCancelled(@)]
       \/ /\ Resumed(p, "L154", "err")
          /\ proc' = [proc EXCEPT ![p] = Raise500(@, InternalError)]
          /\ running' = running
    /\ UNCHANGED <<db, exists, nextId, invoked, faults, clock, calls, ui,
                   call>>

\* line 170
CancelAfterCommit(p) ==
    /\ proc[p].kind = "cancel"
    /\ \/ /\ Resumed(p, "L169", "ok")
          /\ proc' = [proc EXCEPT ![p] = Issue(@, "refresh", "L170")]
       \/ /\ Resumed(p, "L169", "err")
          /\ proc' = [proc EXCEPT ![p] = Raise500(@, InternalError)]
    /\ UNCHANGED <<db, exists, running, nextId, invoked, faults, clock,
                   calls, ui, call>>

\* line 172 and the endpoint's projection
CancelAfterRefresh(p) ==
    /\ proc[p].kind = "cancel"
    /\ \/ /\ Resumed(p, "L170", "ok")
          /\ proc' = [proc EXCEPT ![p] = Return(@, Ok200(@.id, @.task))]
       \/ /\ Resumed(p, "L170", "err")
          /\ proc' = [proc EXCEPT ![p] = Raise500(@, InternalError)]
    /\ UNCHANGED <<db, exists, running, nextId, invoked, faults, clock,
                   calls, ui, call>>

\* --------------------------- main.py delete_task / TaskService.delete_task
DeleteStart(p, id) ==
    /\ Accept(p)
    /\ proc' = [proc EXCEPT ![p] =
          Issue([IdleProc EXCEPT !.kind = "delete", !.id = id],
                "select", "L188")]
    /\ UNCHANGED <<db, exists, running, nextId, invoked, faults, clock, ui,
                   call>>

Deleted(id) ==
    [NoResp EXCEPT !.code = 200, !.detail = "Task deleted successfully",
                   !.task = [NoResult EXCEPT !.task_id = id]]

\* lines 189-200
DeleteAfterGet(p) ==
    /\ proc[p].kind = "delete"
    /\ \/ /\ Resumed(p, "L188", "ok")
          /\ IF ~proc[p].has
             THEN /\ proc' = [proc EXCEPT ![p] = Return(@, NotFound)]
                  /\ running' = running
             ELSE /\ running' = RunningPop(
                        IF Cancellable(proc[p].task.status)
                        THEN RunningSet(running, proc[p].id, FALSE)
                        ELSE running, proc[p].id)
                  /\ proc' = [proc EXCEPT ![p] = Issue(@, "delete", "L201")]
       \/ /\ Resumed(p, "L188", "err")
          /\ proc' = [proc EXCEPT ![p] = Raise500(@, InternalError)]
          /\ running' = running
    /\ UNCHANGED <<db, exists, nextId, invoked, faults, clock, calls, ui,
                   call>>

\* line 203
DeleteAfterCommit(p) ==
    /\ proc[p].kind = "delete"
    /\ \/ /\ Resumed(p, "L201", "ok")
          /\ proc' = [proc EXCEPT ![p] = Return(@, Deleted(@.id))]
       \/ /\ Resumed(p, "L201", "err")
          /\ proc' = [proc EXCEPT ![p] = Raise500(@, InternalError)]
    /\ UNCHANGED <<db, exists, running, nextId, invoked, faults, clock,
                   calls, ui, call>>

\* ------------------------------------------------------------ specification
Next ==
    \/ \E p \in Procs : DbSelect(p)
    \/ \E p \in Procs : DbSelectAll(p)
    \/ \E p \in Procs : DbCommit(p)
    \/ \E p \in Procs : DbRefresh(p)
    \/ \E p \in Procs : DbInsert(p)
    \/ \E p \in Procs : DbDelete(p)
    \/ \E p \in Procs : DbFault(p)
    \/ \E p \in ReqProc, t \in Topics, l \in Languages : CreateStart(p, t, l)
    \/ \E p \in ReqProc : CreateAfterCommit(p)
    \/ \E p \in ReqProc : CreateAfterRefresh(p)
    \/ \E i \in ExecProc : ExecBegin(i)
    \/ \E i \in ExecProc : ExecAfterGet(i)
    \/ \E i \in ExecProc : ExecRun(i)
    \/ \E i \in ExecProc : ExecAfterCancelBefore(i)
    \/ \E i \in ExecProc : ExecAfterStore(i)
    \/ \E i \in ExecProc : ExecAfterRefresh(i)
    \/ \E i \in ExecProc : ExecAfterExcept(i)
    \/ \E i \in ExecProc : SinkAfterGet(i)
    \/ \E i \in ExecProc : SinkAfterCommit(i)
    \/ \E p \in ReqProc, id \in Ids : GetStart(p, id)
    \/ \E p \in ReqProc : GetAfterGet(p)
    \/ \E p \in ReqProc : ListStart(p)
    \/ \E p \in ReqProc : ListAfterSelect(p)
    \/ \E p \in ReqProc : ListAfterRefresh(p)
    \/ \E p \in ReqProc, id \in Ids : CancelStart(p, id)
    \/ \E p \in ReqProc : CancelAfterGet(p)
    \/ \E p \in ReqProc : CancelAfterCommit(p)
    \/ \E p \in ReqProc : CancelAfterRefresh(p)
    \/ \E p \in ReqProc, id \in Ids : DeleteStart(p, id)
    \/ \E p \in ReqProc : DeleteAfterGet(p)
    \/ \E p \in ReqProc : DeleteAfterCommit(p)

Spec == Init /\ [][Next]_vars

TypeOK ==
    /\ exists \subseteq Ids
    /\ \A i \in Ids : db[i].status \in TaskStatus
    /\ \A i \in Ids : running[i] \in {"absent", "true", "false"}
    /\ nextId \in 1..(MaxTasks + 1)
    /\ faults \in 0..MaxFaults
    /\ calls \in 0..MaxCalls
    /\ clock \in 1..MaxTasks

\* The backend with a database that answers every statement: requests
\* arrive or not, every coroutine that can resume does, and every awaited
\* statement takes effect.  The failure sink then never commits: without a
\* failing statement an exception leaves execute_task only when the row is
\* gone, and the sink finds no row to mark.
Arrive ==
    \/ \E p \in ReqProc, t \in Topics, l \in Languages : CreateStart(p, t, l)
    \/ \E p \in ReqProc, id \in Ids : GetStart(p, id)
    \/ \E p \in ReqProc : ListStart(p)
    \/ \E p \in ReqProc, id \in Ids : CancelStart(p, id)
    \/ \E p \in ReqProc, id \in Ids : DeleteStart(p, id)

Statement ==
    \/ \E p \in Procs : DbSelect(p)
    \/ \E p \in Procs : DbSelectAll(p)
    \/ \E p \in Procs : DbCommit(p)
    \/ \E p \in Procs : DbRefresh(p)
    \/ \E p \in Procs : DbInsert(p)
    \/ \E p \in Procs : DbDelete(p)

Resume ==
    \/ \E p \in ReqProc : CreateAfterCommit(p)
    \/ \E p \in ReqProc : CreateAfterRefresh(p)
    \/ \E i \in ExecProc : ExecBegin(i)
    \/ \E i \in ExecProc : ExecAfterGet(i)
    \/ \E i \in ExecProc : ExecRun(i)
    \/ \E i \in ExecProc : ExecAfterCancelBefore(i)
    \/ \E i \in ExecProc : ExecAfterStore(i)
    \/ \E i \in ExecProc : ExecAfterRefresh(i)
    \/ \E i \in ExecProc : ExecAfterExcept(i)
    \/ \E i \in ExecProc : SinkAfterGet(i)
    \/ \E p \in ReqProc : GetAfterGet(p)
    \/ \E p \in ReqProc : ListAfterSelect(p)
    \/ \E p \in ReqProc : ListAfterRefresh(p)
    \/ \E p \in ReqProc : CancelAfterGet(p)
    \/ \E p \in ReqProc : CancelAfterCommit(p)
    \/ \E p \in ReqProc : CancelAfterRefresh(p)
    \/ \E p \in ReqProc : DeleteAfterGet(p)
    \/ \E p \in ReqProc : DeleteAfterCommit(p)

FairNext ==
    \/ Arrive
    \/ Statement
    \/ Resume

FairSpec ==
    /\ Init
    /\ [][FairNext]_vars
    /\ WF_vars(Statement)
    /\ WF_vars(Resume)

\* ------------------------------------- one pipeline result, end to end
\* The path of one transcript: execute_marketing_task makes the bundle,
\* execute_task stores it (lines 121-130), task_to_result projects the row.
LongLines  == {"  Twitter: news", "Campaign idea one", "filler"}
ShortLines == Lines \cup {""}

SeqsUpTo(S, n) == UNION {[1..k -> S] : k \in 1..n}

\* str(crew.kickoff()): a string, so at least one (possibly empty) line
Inputs == SeqsUpTo(LongLines, MaxLen) \cup SeqsUpTo(ShortLines, ShortLen)

PureInit ==
    /\ BackendInit
    /\ ui = NoUi
    /\ \E t \in Inputs :
         call = [NoCall EXCEPT !.stage = "ready", !.transcript = t,
                               !.row = MarketingTask(1, "topic", NULL)]

\* marketing_crew.py lines 141-167 with a crew that was built
Kickoff ==
    /\ call.stage = "ready"
    /\ \E ok \in BOOLEAN :
         call' = [call EXCEPT
            !.stage = "returned",
            !.bundle = execute_marketing_task(
                          call.row.topic, call.row.language,
                          [construct |-> TRUE, kickoff |-> ok,
                           transcript |-> IF ok THEN call.transcript
                                          ELSE NoText]).bundle]
    /\ UNCHANGED <<backend, ui>>

\* task_service.py lines 121-130: the columns the commit writes
Persist ==
    /\ call.stage = "returned"
    /\ LET r == StoreResultDone(
                   [IdleProc EXCEPT !.has = TRUE,
                       !.task = [call.row EXCEPT !.status = IN_PROGRESS]],
                   call.bundle)
       IN call' = [call EXCEPT
             !.stage = "stored",
             !.row = [f \in Fields |-> IF f \in r.dirty THEN r.task[f]
                                       ELSE call.row[f]]]
    /\ UNCHANGED <<backend, ui>>

\* task_to_result on the row as created or as stored
Project ==
    /\ call.stage \in {"ready", "stored"}
    /\ call' = [call EXCEPT !.stage = "projected",
                            !.result = task_to_result(1, call.row)]
    /\ UNCHANGED <<backend, ui>>

PureNext ==
    \/ Kickoff
    \/ Persist
    \/ Project

PureSpec == PureInit /\ [][PureNext]_vars

\* ------------------------------------------- frontend/streamlit_app.py
\* One script run of main() is one action.  ui holds st.session_state
\* (backend_ok, show_connection_error, page, task_created_success,
\* task_created_topic, last_task_id; "unset" and 0 stand for a missing key),
\* the rerun a run asked for with st.rerun(), and what the latest run did:
\* the event that started it, the rerun it served, the submitted topic, the
\* outcome of its create or list call, the number of create and list calls,
\* the messages it showed, the list it received, the list it rendered and
\* the cards rendered from it, the task and the buttons of the Task Details
\* page, and the cancel or delete call it made.
\* told remembers that the list call's connect error was shown before.
\* A button press takes two steps: the run starts with the pressed button
\* recorded (pressed), and then renders the page, where the button fires if
\* it is rendered again.
Pages == {"Create Task", "View Tasks", "Task Details"}
FormTopics == {"", "Launch eco-friendly product line"}
Outcomes == {"ok", "odd", "timeout", "connect", "status", "other"}
NoId == 0
Items == [task_id : {NoId, 1, 2}, status : {PENDING, COMPLETED}]
OneItems == [task_id : {1}, status : {IN_PROGRESS, FAILED, CANCELLED}]
Lists == {<<>>} \cup SeqsUpTo(Items, MaxList) \cup SeqsUpTo(OneItems, 1)
CallOutcomes == Outcomes \ {"odd"}

TopicRequired == "Please enter a marketing topic"
CannotConnectCreate == "Cannot connect to backend. Make sure it runs."
CannotConnect == "Cannot connect to backend"
ServerErrorDetail == "Server error with detail"
ServerError == "Server error"
CreateFailed == "Error creating task"
UnexpectedFormat == "Unexpected response format from server"
Created == "Task created successfully!"
NoTasksFound == "No tasks found"
NotVisibleYet == "Task created but not visible yet"
BackendIssue == "Backend Connection Issue"
TimedOut == "Request timed out"
CannotConnectCall == "Cannot connect to backend (task call)"
ServerErrorText == "Server error with response text"
CallFailed == "Error in task call"
TaskCancelled == "Task cancelled successfully!"
TaskDeleted == "Task deleted successfully!"
TaskNotFound == "Task not found"

Show(u, msg) == [u EXCEPT !.shown = @ \cup {msg}]

\* lines 351-375: the health probe of a session that has no backend_ok, and
\* the warning of an unhealthy one
Top(u, healthy) ==
    LET v == IF u.backend_ok = "unset"
             THEN [u EXCEPT !.backend_ok =
                              IF healthy THEN "true" ELSE "false"]
             ELSE u
    IN IF v.backend_ok = "false" THEN Show(v, BackendIssue) ELSE v

\* answers of GET /health a run may see; a session that has backend_ok
\* sends no probe
Probe(u) == IF u.backend_ok = "unset" THEN BOOLEAN ELSE {TRUE}

\* a script run starts with an empty page
Begin(u, event, healthy) ==
    Top([u EXCEPT !.event = event, !.after = u.rerun, !.rerun = "none",
                  !.topic = "", !.outcome = "none", !.posted = 0,
                  !.fetched = 0, !.shown = {}, !.listed = <<>>,
                  !.tasks = <<>>, !.cards = <<>>, !.detail = <<>>,
                  !.buttons = {}, !.called = NoCalled,
                  !.pressed = NoPress], healthy)

\* create_task, lines 49-83: the session after the call and the task
\* identifier it returns (NoId for None)
create_task(u, outcome, id) ==
    LET v == [u EXCEPT !.posted = @ + 1, !.outcome = outcome]
    IN CASE outcome = "ok" -> [u |-> v, task |-> id]
         [] outcome \in {"odd", "timeout"} -> [u |-> v, task |-> NoId]
         [] outcome = "connect" ->
              [u |-> [Show(v, CannotConnectCreate)
                        EXCEPT !.backend_ok = "false"],
               task |-> NoId]
         [] outcome = "status" ->
              [u |-> Show(v, ServerErrorDetail), task |-> NoId]
         [] OTHER -> [u |-> Show(v, CreateFailed), task |-> NoId]

\* list_tasks, lines 107-135: the session after the call and the list it
\* returns
list_tasks(u, outcome, list) ==
    LET v == [u EXCEPT !.fetched = @ + 1, !.outcome = outcome]
    IN CASE outcome = "ok" -> [u |-> v, tasks |-> list]
         [] outcome = "odd" ->
              [u |-> Show(v, UnexpectedFormat), tasks |-> <<>>]
         [] outcome = "connect" ->
              [u |-> [(IF v.show_connection_error # "false"
                       THEN [Show(v, CannotConnect)
                               EXCEPT !.show_connection_error = "false"]
                       ELSE v)
                        EXCEPT !.backend_ok = "false"],
               tasks |-> <<>>]
         [] outcome = "status" ->
              [u |-> Show(v, ServerError), tasks |-> <<>>]
         [] OTHER -> [u |-> v, tasks |-> <<>>]

\* variant: a later entry replaces the one kept for its identifier
RECURSIVE DedupLast(_, _)
DedupLast(tasks, kept) ==
    IF tasks = <<>> THEN kept
    ELSE LET task == Head(tasks)
             at == {k \in 1..Len(kept) : kept[k].task_id = task.task_id}
         IN DedupLast(Tail(tasks),
               IF task.task_id = NoId THEN kept
               ELSE IF at = {} THEN Append(kept, task)
               ELSE [k \in 1..Len(kept) |->
                       IF k \in at THEN task ELSE kept[k]])

\* lines 472-479: the loop over tasks filling unique_tasks_dict, whose
\* values are kept in insertion order
RECURSIVE Dedup(_, _)
Dedup(tasks, kept) ==
    IF tasks = <<>> THEN kept
    ELSE LET task == Head(tasks)
             at == {k \in 1..Len(kept) : kept[k].task_id = task.task_id}
         IN Dedup(Tail(tasks),
               IF task.task_id = NoId THEN kept
               ELSE IF at = {} THEN Append(kept, task)
               ELSE kept)

\* lines 405-410: the Create Task page above its form
CreatePage(u) ==
    IF u.task_created_success THEN Show(u, Created) ELSE u

\* variant: the acknowledgment is recorded only with a returned task
SubmittedStrict(u, topic, outcome, id) ==
    LET v == [u EXCEPT !.topic = topic]
    IN IF topic = "" THEN Show(v, TopicRequired)
       ELSE LET r == create_task(v, outcome, id)
            IN IF r.task # NoId
               THEN [r.u EXCEPT !.last_task_id = r.task,
                                !.task_created_success = TRUE,
                                !.task_created_topic = topic,
                                !.rerun = "submit"]
               ELSE [r.u EXCEPT !.rerun = "submit"]

\* lines 428-445: the submitted form
Submitted(u, topic, outcome, id) ==
    LET v == [u EXCEPT !.topic = topic]
    IN IF topic = "" THEN Show(v, TopicRequired)
       ELSE LET r == create_task(v, outcome, id)
            IN IF r.task # NoId
               THEN [r.u EXCEPT !.last_task_id = r.task,
                                !.task_created_success = TRUE,
                                !.task_created_topic = topic,
                                !.rerun = "submit"]
               ELSE [r.u EXCEPT !.task_created_success = TRUE,
                                !.task_created_topic = topic,
                                !.rerun = "submit"]

\* the failure branches shared by get_task, cancel_task and delete_task
\* (lines 92-104, 146-158, 169-181)
CallFailure(u, outcome) ==
    CASE outcome = "timeout" -> Show(u, TimedOut)
      [] outcome = "connect" ->
           [Show(u, CannotConnectCall) EXCEPT !.backend_ok = "false"]
      [] outcome = "status" -> Show(u, ServerErrorText)
      [] OTHER -> Show(u, CallFailed)

\* get_task, lines 86-104: the session after the call and the task it
\* returns, as a list of at most one task
get_task(u, outcome, list) ==
    IF outcome = "ok" THEN [u |-> u, task |-> list]
    ELSE [u |-> CallFailure(u, outcome), task |-> <<>>]

\* cancel_task, lines 138-158, called for a task displayed with a status
cancel_task(u, id, status, outcome) ==
    LET v == [u EXCEPT !.called = [op |-> "cancel", id |-> id,
                                   status |-> status, outcome |-> outcome]]
    IN IF outcome = "ok" THEN [u |-> v, result |-> TRUE]
       ELSE [u |-> CallFailure(v, outcome), result |-> FALSE]

\* delete_task, lines 161-181, called for a task displayed with a status
delete_task(u, id, status, outcome) ==
    LET v == [u EXCEPT !.called = [op |-> "delete", id |-> id,
                                   status |-> status, outcome |-> outcome]]
    IN IF outcome = "ok" THEN [u |-> v, result |-> TRUE]
       ELSE [u |-> CallFailure(v, outcome), result |-> FALSE]

Waiting(task) == task.status \in {PENDING, IN_PROGRESS}

Finished(task) == task.status \in {COMPLETED, FAILED, CANCELLED}

\* variant: every card offers every control
ControlsLoose(task) == {"view", "cancel", "delete", "refresh"}

\* _render_task_card, lines 312-341: the buttons of a card
Controls(task) ==
    {"view"}
      \cup (IF Waiting(task) THEN {"cancel"} ELSE {})
      \cup (IF Finished(task) THEN {"delete"} ELSE {})
      \cup (IF Waiting(task) THEN {"refresh"} ELSE {})

Card(task) ==
    [task_id |-> task.task_id, status |-> task.status,
     controls |-> Controls(task)]

\* lines 497-527: the cards in the order they are rendered
Cards(tasks) ==
    LET Group(S) ==
          LET Among(t) == t.status \in S
              g == SelectSeq(tasks, Among)
          IN [k \in 1..Len(g) |-> Card(g[k])]
    IN Group({PENDING, IN_PROGRESS}) \o Group({COMPLETED})
         \o Group({FAILED}) \o Group({CANCELLED})

\* lines 464-527: the View Tasks page below its refresh controls
ViewPage(u, outcome, list) ==
    LET v == IF u.show_connection_error = "false"
             THEN [u EXCEPT !.show_connection_error = "true"] ELSE u
        r == list_tasks(v, outcome, list)
        tasks == IF r.tasks # <<>> THEN Dedup(r.tasks, <<>>) ELSE r.tasks
        w == [r.u EXCEPT !.listed = r.tasks, !.tasks = tasks,
                         !.cards = Cards(tasks),
                         !.told = @ \/ CannotConnect \in r.u.shown]
    IN IF tasks # <<>> THEN w
       ELSE IF w.last_task_id # NoId
       THEN Show(Show(w, NoTasksFound), NotVisibleYet)
       ELSE Show(w, NoTasksFound)

\* st.rerun() inside a page: the run stops and what it rendered is dropped
StRerun(u, cause) ==
    [u EXCEPT !.rerun = cause, !.listed = <<>>, !.tasks = <<>>,
              !.cards = <<>>, !.detail = <<>>, !.buttons = {}]

\* lines 312-341: the pressed button of a card fires when the run renders
\* it; outcome is the answer to the call it makes
CardPressed(u, control, id, outcome) ==
    LET at == {k \in 1..Len(u.cards) :
                 u.cards[k].task_id = id /\ control \in u.cards[k].controls}
    IN IF at = {} THEN u
       ELSE LET status == u.cards[CHOOSE k \in at : TRUE].status
            IN CASE control = "view" ->
                      StRerun([u EXCEPT !.selected_task_id = id,
                                        !.page = "Task Details"], "card")
                 [] control = "cancel" ->
                      LET r == cancel_task(u, id, status, outcome)
                      IN IF r.result
                         THEN StRerun(Show(r.u, TaskCancelled), "card")
                         ELSE r.u
                 [] control = "delete" ->
                      LET r == delete_task(u, id, status, outcome)
                      IN IF r.result
                         THEN StRerun(Show(r.u, TaskDeleted), "card")
                         ELSE r.u
                 [] OTHER -> StRerun(u, "card")

\* lines 536-538: the task the Task Details page is about
DetailId(u) ==
    IF u.selected_task_id # NoId THEN u.selected_task_id
    ELSE u.last_task_id

\* lines 603-675: the buttons below a displayed task
DetailButtons(task) ==
    (IF Waiting(task) THEN {"cancel", "refresh_now"} ELSE {})
      \cup {"refresh"}
      \cup (IF Finished(task) THEN {"delete"} ELSE {})

\* lines 532-683: the Task Details page
DetailsPage(u, outcome, list) ==
    IF DetailId(u) = NoId THEN [u EXCEPT !.buttons = {"load"}]
    ELSE LET r == get_task(u, outcome, list)
         IN IF r.task # <<>>
            THEN [r.u EXCEPT !.detail = r.task,
                             !.buttons = DetailButtons(r.task[1])]
            ELSE Show(r.u, TaskNotFound)

\* lines 603-681: the pressed button of the Task Details page fires when
\* the run renders it
DetailPressed(u, control, outcome) ==
    IF control \notin u.buttons THEN u
    ELSE LET id == DetailId(u)
             status == u.detail[1].status
         IN CASE control = "cancel" ->
                   LET r == cancel_task(u, id, status, outcome)
                   IN IF r.result
                      THEN StRerun(Show(r.u, TaskCancelled), "detail")
                      ELSE r.u
              [] control = "delete" ->
                   LET r == delete_task(u, id, status, outcome)
                   IN IF r.result
                      THEN StRerun([Show(r.u, TaskDeleted)
                                      EXCEPT !.selected_task_id = NoId,
                                             !.last_task_id = NoId,
                                             !.page = "View Tasks"],
                                   "detail")
                      ELSE r.u
              [] OTHER -> StRerun(u, "detail")

Page(u, outcome, list) ==
    IF u.page = "Create Task" THEN CreatePage(u)
    ELSE IF u.page = "View Tasks" THEN ViewPage(u, outcome, list)
    ELSE DetailsPage(u, outcome, list)

\* what a run receives from the backend: the outcome of its list call and,
\* when that is a list, the list
Answers == {a \in [outcome : Outcomes, list : Lists] :
              a.outcome # "ok" => a.list = <<>>}

\* what the Task Details page receives for the task it asks for
DetailAnswers(id) ==
    {[outcome |-> "ok", list |-> <<[task_id |-> id, status |-> s]>>] :
        s \in {PENDING, IN_PROGRESS, COMPLETED, FAILED, CANCELLED}}
      \cup {[outcome |-> o, list |-> <<>>] : o \in CallOutcomes \ {"ok"}}

\* what a run of the page of session u may receive
Replies(u) ==
    IF u.page = "View Tasks" THEN Answers
    ELSE IF u.page = "Task Details" /\ DetailId(u) # NoId
    THEN DetailAnswers(DetailId(u))
    ELSE {[outcome |-> "ok", list |-> <<>>]}

ConsoleInit ==
    /\ BackendInit
    /\ call = NoCall
    /\ ui = NoUi

\* the first run of a session
Open ==
    /\ ui.event = "none"
    /\ \E healthy \in Probe(ui) :
         ui' = Page(Begin(ui, "open", healthy), "ok", <<>>)
    /\ UNCHANGED <<backend, call>>

Idle ==
    /\ ui.event # "none"
    /\ ui.rerun = "none"
    /\ ui.pressed = NoPress

\* lines 378-393: another page is picked in the sidebar
SelectPage ==
    /\ Idle
    /\ \E page \in Pages \ {ui.page}, healthy \in Probe(ui) :
         LET u == [Begin(ui, "select", healthy) EXCEPT !.page = page]
         IN \E a \in Replies(u) : ui' = Page(u, a.outcome, a.list)
    /\ UNCHANGED <<backend, call>>

\* lines 412-445: the form is submitted
SubmitForm ==
    /\ Idle
    /\ ui.page = "Create Task"
    /\ \E topic \in FormTopics, outcome \in Outcomes, healthy \in Probe(ui) :
         ui' = Submitted(CreatePage(Begin(ui, "submit", healthy)),
                         topic, outcome, 1)
    /\ UNCHANGED <<backend, call>>

\* lines 454-455: Refresh Tasks is pressed
RefreshTasks ==
    /\ Idle
    /\ ui.page = "View Tasks"
    /\ \E healthy \in Probe(ui) :
         ui' = [Begin(ui, "refresh", healthy) EXCEPT !.rerun = "refresh"]
    /\ UNCHANGED <<backend, call>>

\* a button of a rendered card is pressed: the run starts
CardPress ==
    /\ Idle
    /\ ui.page = "View Tasks"
    /\ \E k \in 1..Len(ui.cards), healthy \in Probe(ui) :
         \E control \in ui.cards[k].controls :
           ui' = [Begin(ui, "card", healthy) EXCEPT
                    !.pressed = [control |-> control,
                                 id |-> ui.cards[k].task_id]]
    /\ UNCHANGED <<backend, call>>

\* answers a pressed button may get: one of the call's outcomes when it
\* fires and makes a call
CallAnswers(fires, control) ==
    IF fires /\ control \in {"cancel", "delete"} THEN CallOutcomes
    ELSE {"none"}

\* lines 464-527 and 312-341: the run of a pressed card button renders
\* the page
CardRun ==
    /\ ui.pressed # NoPress
    /\ ui.page = "View Tasks"
    /\ \E a \in Answers :
         LET u == ViewPage([ui EXCEPT !.pressed = NoPress],
                           a.outcome, a.list)
             fires == \E k \in 1..Len(u.cards) :
                        /\ u.cards[k].task_id = ui.pressed.id
                        /\ ui.pressed.control \in u.cards[k].controls
         IN \E o \in CallAnswers(fires, ui.pressed.control) :
              ui' = CardPressed(u, ui.pressed.control, ui.pressed.id, o)
    /\ UNCHANGED <<backend, call>>

\* lines 541-546: Load Task is pressed with an identifier typed in
LoadTask ==
    /\ Idle
    /\ ui.page = "Task Details"
    /\ "load" \in ui.buttons
    /\ \E id \in {1, 2}, healthy \in Probe(ui) :
         ui' = [Begin(ui, "load", healthy) EXCEPT !.selected_task_id = id,
                                                 !.rerun = "load"]
    /\ UNCHANGED <<backend, call>>

\* a button below the displayed task is pressed: the run starts
DetailPress ==
    /\ Idle
    /\ ui.page = "Task Details"
    /\ \E control \in ui.buttons \ {"load"}, healthy \in Probe(ui) :
         ui' = [Begin(ui, "detail", healthy) EXCEPT
                  !.pressed = [control |-> control, id |-> DetailId(ui)]]
    /\ UNCHANGED <<backend, call>>

\* lines 532-683: the run of a pressed Task Details button renders the page
DetailRun ==
    /\ ui.pressed # NoPress
    /\ ui.page = "Task Details"
    /\ \E a \in Replies(ui) :
         LET u == DetailsPage([ui EXCEPT !.pressed = NoPress],
                              a.outcome, a.list)
             fires == ui.pressed.control \in u.buttons
         IN \E o \in CallAnswers(fires, ui.pressed.control) :
              ui' = DetailPressed(u, ui.pressed.control, o)
    /\ UNCHANGED <<backend, call>>

\* lines 373-375: Check Backend Again is pressed
CheckBackendAgain ==
    /\ Idle
    /\ ui.backend_ok = "false"
    /\ ui' = [Begin(ui, "check", FALSE) EXCEPT !.backend_ok = "unset",
                                               !.rerun = "check"]
    /\ UNCHANGED <<backend, call>>

\* the run st.rerun() asked for
Rerun ==
    /\ ui.rerun # "none"
    /\ \E healthy \in Probe(ui) :
         LET u == Begin(ui, "rerun", healthy)
         IN \E a \in Replies(u) : ui' = Page(u, a.outcome, a.list)
    /\ UNCHANGED <<backend, call>>

ConsoleNext ==
    \/ Open
    \/ SelectPage
    \/ SubmitForm
    \/ RefreshTasks
    \/ CardPress
    \/ CardRun
    \/ LoadTask
    \/ DetailPress
    \/ DetailRun
    \/ CheckBackendAgain
    \/ Rerun

ConsoleSpec == ConsoleInit /\ [][ConsoleNext]_vars

\* ------------------------------------------------------------------ claims
IsTerminal(i) == i \in exists /\ db[i].status \in Terminal

\* C1: once the stored status of a row is completed, failed or cancelled it
\* never changes again for as long as the row exists.
C1_TerminalStatusFinal ==
    [][\A i \in Ids :
          (IsTerminal(i) /\ i \in exists') => db'[i].status = db[i].status]_vars

\* C2: a persisted row has completed_at set if and only if its status is
\* terminal.
C2_CompletedAtIffTerminal ==
    \A i \in exists : db[i].completed_at <=> (db[i].status \in Terminal)

\* a row of the store that an execution or a request may touch
Stepped(p) == proc'[p] # proc[p]

\* the statement awaited at line `at` by p takes effect successfully
Lands(p, kind, at) ==
    /\ proc[p].kind = kind
    /\ proc[p].at = at
    /\ proc[p].st = "wait"
    /\ proc'[p].st = "ok"

\* the UPDATE of a landing commit writes the changed columns of the object
Written(p, fs) ==
    /\ proc[p].id \in exists'
    /\ \A f \in fs : f \in proc[p].dirty /\ db'[proc[p].id][f] = proc[p].task[f]

\* C3: cancelling a pending task makes it cancelled with completed_at set and
\* error_message "Task was cancelled by user"; an execute task call that then
\* reads the row as cancelled leaves the store and the registry untouched and
\* does not invoke the pipeline service.
C3_CancelPendingThenExecute ==
    [][/\ \A p \in ReqProc :
            (/\ proc[p].kind = "cancel"
             /\ Resumed(p, "L154", "ok")
             /\ proc[p].has
             /\ proc[p].task.status = PENDING
             /\ Stepped(p))
            => /\ proc'[p].st = "wait" /\ proc'[p].op = "commit"
               /\ proc'[p].at = "L169"
               /\ proc'[p].task.status = CANCELLED
               /\ proc'[p].task.completed_at
               /\ proc'[p].task.error_message = "Task was cancelled by user"
               /\ proc'[p].dirty = {"status", "completed_at", "error_message"}
       /\ \A p \in ReqProc :
            Lands(p, "cancel", "L169")
            => Written(p, {"status", "completed_at"})
       /\ \A i \in ExecProc :
            (/\ proc[i].kind = "exec"
             /\ Resumed(i, "L81", "ok")
             /\ proc[i].has
             /\ proc[i].task.status = CANCELLED
             /\ Stepped(i))
            => /\ proc'[i].st = "done"
               /\ UNCHANGED <<db, exists, running, invoked>>]_vars

C3_Witness ==
    \E i \in ExecProc, p \in ReqProc :
        /\ proc[i].kind = "exec" /\ proc[i].st = "done"
        /\ i \notin invoked
        /\ i \in exists
        /\ db[i].status = CANCELLED
        /\ db[i].completed_at
        /\ db[i].error_message = "Task was cancelled by user"
        /\ proc[p].kind = "cancel" /\ proc[p].st = "done"
        /\ proc[p].resp.code = 200
        /\ proc[p].resp.task.status = CANCELLED
        /\ faults = 0

\* C4: once a cancel request was accepted after the pipeline call of a run
\* was made and before the run's outcome is persisted, the run does not
\* persist the pipeline's status and artifacts: it persists cancelled.
\* (The call is synchronous: the first point at which the loop can accept a
\* request sent during the call is the await of the commit at line 130.)
C4_CancelDuringPipelineDiscards ==
    [][\A i \in ExecProc :
          (Lands(i, "exec", "L130") /\ running[i] = "false")
          => (i \in exists' => db'[i].status = CANCELLED)]_vars

\* C5: a task that is terminal and has no execution running has no entry in
\* the cancellation registry.
C5_RegistryClearedWhenTerminal ==
    \A i \in Ids :
        (IsTerminal(i) /\ proc[i].kind = "exec" /\ proc[i].st = "done")
        => running[i] = "absent"

\* C6: cancel task on a row read as completed, failed or cancelled returns
\* that row as read and writes neither the store nor the registry.
C6_CancelTerminalIsNoOp ==
    [][\A p \in ReqProc :
          (/\ proc[p].kind = "cancel"
           /\ Resumed(p, "L154", "ok")
           /\ proc[p].has
           /\ proc[p].task.status \in Terminal
           /\ Stepped(p))
          => /\ UNCHANGED <<db, exists, running, invoked>>
             /\ proc'[p].st = "done"
             /\ proc'[p].resp.code = 200
             /\ proc'[p].resp.task.status = proc[p].task.status
             /\ proc'[p].resp.task.completed_at = proc[p].task.completed_at
             /\ proc'[p].resp.task.error_message = proc[p].task.error_message
      ]_vars

C6_Witness ==
    \E p \in ReqProc :
        /\ proc[p].kind = "cancel" /\ proc[p].st = "done"
        /\ proc[p].resp.code = 200
        /\ proc[p].resp.task.status = COMPLETED
        /\ proc[p].id \in exists
        /\ db[proc[p].id].status = COMPLETED
        /\ db[proc[p].id].error_message = NULL

\* C7: when the pipeline returns a completed bundle the execution stores
\* status completed, completed_at, the result and the four artifacts as
\* returned, and after its refresh the registry has no entry for the task.
C7_CompletedRunPersistsBundle ==
    [][\A i \in ExecProc :
        /\ (/\ proc[i].kind = "exec"
            /\ Resumed(i, "L94", "ok")
            /\ proc'[i].at = "L130"
            /\ proc'[i].task.status = COMPLETED)
           => \E t \in Transcripts :
                /\ proc'[i].task.result = t
                /\ proc'[i].task.completed_at
                /\ proc'[i].task.content_strategy
                      = _extract_content_strategy(t)
                /\ proc'[i].task.social_media_posts
                      = Join(_extract_social_posts(t))
                /\ proc'[i].task.blog_outline = _extract_blog_outline(t)
                /\ proc'[i].task.campaign_ideas
                      = Join(_extract_campaign_ideas(t))
                /\ {"status", "completed_at", "result"}
                      \subseteq proc'[i].dirty
        /\ (Lands(i, "exec", "L130") /\ proc[i].task.status = COMPLETED)
           => /\ i \in exists'
              /\ \A f \in {"status", "completed_at", "result",
                           "content_strategy", "social_media_posts",
                           "blog_outline", "campaign_ideas"} :
                    db'[i][f] = proc[i].task[f]
        /\ (/\ proc[i].kind = "exec"
            /\ Resumed(i, "L131", "ok")
            /\ Stepped(i))
           => /\ proc'[i].st = "done"
              /\ running'[i] = "absent"]_vars

C7_Witness ==
    \E i \in ExecProc :
        /\ proc[i].kind = "exec" /\ proc[i].st = "done"
        /\ i \in exists
        /\ db[i].status = COMPLETED
        /\ db[i].completed_at
        /\ Len(db[i].result) = 4
        /\ db[i].content_strategy = db[i].result
        /\ db[i].blog_outline = db[i].result
        /\ db[i].social_media_posts = <<"Twitter: news">>
        /\ db[i].campaign_ideas = <<"Campaign idea one">>
        /\ db[i].error_message = NULL
        /\ running[i] = "absent"
        /\ faults = 0

\* C8: when an exception reaches the except clause of execute task, the row
\* becomes cancelled with "Task was cancelled" if the flag is false, and
\* otherwise failed with the exception's text; completed_at is set in both
\* cases.
C8_ExceptionPathOutcome ==
    [][\A i \in ExecProc :
        /\ (/\ proc[i].kind = "exec"
            /\ proc[i].at # "L146"
            /\ proc'[i].at = "L146")
           => /\ proc'[i].task.completed_at
              /\ {"status", "completed_at", "error_message"}
                    \subseteq proc'[i].dirty
              /\ IF running[i] = "true"
                 THEN /\ proc'[i].task.status = FAILED
                      /\ proc'[i].task.error_message =
                            IF proc[i].st = "err" THEN proc[i].exc
                            ELSE ConstructError
                 ELSE /\ proc'[i].task.status = CANCELLED
                      /\ proc'[i].task.error_message = "Task was cancelled"
        /\ Lands(i, "exec", "L146")
           => Written(i, {"status", "completed_at", "error_message"})]_vars

C8_Witness ==
    \E i \in ExecProc :
        /\ proc[i].kind = "exec" /\ proc[i].st = "done"
        /\ i \in invoked
        /\ i \in exists
        /\ db[i].status = FAILED
        /\ db[i].completed_at
        /\ db[i].error_message = ConstructError
        /\ faults = 0

\* C9: every call of the pipeline service made by execute task returns a
\* bundle: the run goes on to the post-pipeline checkpoint and never enters
\* the except clause from the call.
C9_PipelineNeverRaises ==
    [][\A i \in ExecProc :
          (proc[i].kind = "exec" /\ Resumed(i, "L94", "ok")
             /\ i \in invoked' /\ Stepped(i))
          => proc'[i].at \in {"L116", "L130"}]_vars

\* C10: no background run ends with an unhandled error: an exception that
\* leaves execute task is caught; the row, if found, is set to failed with
\* "Execution error: <text>" and completed_at and committed; a failure of
\* that lookup or commit ends the run quietly.
C10_FailureSink ==
    [][\A i \in ExecProc :
        /\ proc'[i].st # "crashed"
        /\ (/\ proc[i].kind = "exec"
            /\ proc[i].st = "err"
            /\ proc[i].at \in {"L81", "L94", "L146"}
            /\ Stepped(i))
           => /\ proc'[i].st = "wait" /\ proc'[i].op = "select"
              /\ proc'[i].at = "L68"
              /\ proc'[i].cause = proc[i].exc
        /\ (/\ proc[i].kind = "exec"
            /\ Resumed(i, "L68", "ok")
            /\ proc[i].has
            /\ Stepped(i))
           => /\ proc'[i].st = "wait" /\ proc'[i].op = "commit"
              /\ proc'[i].at = "L73"
              /\ proc'[i].task.status = FAILED
              /\ proc'[i].task.completed_at
              /\ proc'[i].task.error_message = ExecutionError(proc[i].cause)
        /\ (/\ proc[i].kind = "exec"
            /\ proc[i].st = "err"
            /\ proc[i].at \in {"L68", "L73"}
            /\ Stepped(i))
           => proc'[i].st = "done"]_vars

C10_Witness ==
    \E i \in ExecProc :
        /\ proc[i].kind = "exec" /\ proc[i].st = "done"
        /\ i \in exists
        /\ db[i].status = FAILED
        /\ db[i].completed_at
        /\ db[i].error_message = ExecutionError(DbError)

\* the handler of request slot p returns in this step
Returns(p, kind) ==
    /\ proc[p].kind = kind
    /\ proc[p].st # "done"
    /\ proc'[p].st = "done"

\* C11: a background run is scheduled only in the step in which POST /tasks
\* produces its 200 response (status pending, no result) for a committed
\* row, it is scheduled once, and every row that POST /tasks has committed
\* has its run scheduled when the handler returns.
C11_OneExecutionPerTask ==
    [][/\ \A i \in ExecProc :
            (proc'[i].st = "scheduled" /\ proc[i].st # "scheduled")
            => /\ proc[i].kind = "none"
               /\ i \in exists
               /\ \E p \in ReqProc :
                    /\ Returns(p, "create")
                    /\ proc[p].id = i
                    /\ proc'[p].resp.code = 200
                    /\ proc'[p].resp.task.task_id = i
                    /\ proc'[p].resp.task.status = PENDING
                    /\ proc'[p].resp.task.content_strategy = NoText
       /\ \A i \in ExecProc :
            proc[i].st = "scheduled" => proc'[i].st \in {"scheduled", "wait"}
       /\ \A p \in ReqProc :
            (Returns(p, "create") /\ proc[p].id \in exists)
            => proc'[proc[p].id].st = "scheduled"]_vars

\* C12: the row that create task commits has status pending, the created
\* identifier, completed_at and every result, artifact and error column
\* absent; the identifier was never handed out before, so it differs from
\* the identifier of every other creation.
C12_CreateYieldsPendingRow ==
    [][\A p \in ReqProc :
        /\ (proc'[p].kind = "create" /\ proc'[p].st = "wait"
               /\ proc'[p].at = "L41" /\ proc[p].st # "wait")
           => /\ proc'[p].id \notin exists
              /\ proc[proc'[p].id].kind = "none"
              /\ \A q \in Procs \ {p} :
                    proc[q].kind \in {"create", "exec"}
                    => proc[q].id # proc'[p].id
              /\ \A i \in exists : db[i].task_id # proc'[p].id
        /\ Lands(p, "create", "L41")
           => /\ proc[p].id \notin exists
              /\ proc[p].id \in exists'
              /\ db'[proc[p].id] =
                    [MarketingTask(proc[p].id, proc[p].task.topic,
                                   proc[p].task.language)
                       EXCEPT !.created_at = clock']
              /\ db'[proc[p].id].status = PENDING
              /\ ~db'[proc[p].id].completed_at
              /\ db'[proc[p].id].error_message = NULL
              /\ db'[proc[p].id].result = NoText]_vars

C12_Witness ==
    \E p \in ReqProc :
        /\ proc[p].kind = "create" /\ proc[p].st = "done"
        /\ proc[p].resp.code = 200
        /\ proc[p].resp.task.task_id = 2
        /\ proc[p].resp.task.status = PENDING
        /\ exists = {1, 2}
        /\ db[1].topic = db[2].topic
        /\ db[1].task_id # db[2].task_id
        /\ db[2].status = PENDING
        /\ ~db[2].completed_at

\* C18: when POST /tasks answers 500 the detail is "Error creating task: "
\* followed by the failure, no run was scheduled for the identifier and no
\* row of that identifier is persisted.
C18_CreateFailureLeavesNothing ==
    \A p \in ReqProc :
        (proc[p].kind = "create" /\ proc[p].st = "done"
           /\ proc[p].resp.code = 500)
        => /\ proc[p].resp.detail
                 \in {CreateError(DbError), CreateError(RefreshError)}
           /\ proc[proc[p].id].kind = "none"
           /\ proc[p].id \notin exists

\* C13: no two persisted rows share a task_id, and no step changes the
\* task_id or the topic of a row that stays in the store.
C13_TaskIdAndTopicImmutable ==
    [][/\ \A i, j \in exists' :
            db'[i].task_id = db'[j].task_id => i = j
       /\ \A i \in exists \cap exists' :
            /\ db'[i].task_id = db[i].task_id
            /\ db'[i].topic = db[i].topic]_vars

C13_Witness ==
    /\ exists = {1, 2}
    /\ db[1].status = COMPLETED
    /\ db[2].status = CANCELLED
    /\ db[2].error_message = "Task was cancelled by user"
    /\ db[1].task_id = 1 /\ db[2].task_id = 2
    /\ \A i \in exists : db[i].topic \in Topics

\* the identifier was handed out and its INSERT is not pending
Settled(i) ==
    /\ i < nextId
    /\ \A q \in ReqProc :
          ~(proc[q].kind = "create" /\ proc[q].id = i /\ proc[q].st = "wait"
              /\ proc[q].at = "L41")

\* C14: delete task on an identifier without a row answers not found and
\* leaves store and registry as they are; on an identifier with a row, of
\* any status, it issues the DELETE, whose completion removes the row and
\* makes delete task return true; the row never comes back, so a later
\* lookup of the identifier finds nothing.
C14_DeleteRemovesRow ==
    [][/\ \A p \in ReqProc :
            /\ (proc[p].kind = "delete" /\ Resumed(p, "L188", "ok")
                   /\ ~proc[p].has /\ Stepped(p))
               => /\ proc'[p].st = "done"
                  /\ proc'[p].resp = NotFound
                  /\ UNCHANGED <<db, exists, running>>
            /\ (proc[p].kind = "delete" /\ Resumed(p, "L188", "ok")
                   /\ proc[p].has /\ Stepped(p))
               => /\ proc'[p].st = "wait" /\ proc'[p].op = "delete"
                  /\ UNCHANGED <<db, exists>>
            /\ Lands(p, "delete", "L201") => proc[p].id \notin exists'
            /\ (proc[p].kind = "delete" /\ Resumed(p, "L201", "ok")
                   /\ Stepped(p))
               => /\ proc'[p].resp = Deleted(proc[p].id)
                  /\ proc[p].id \notin exists'
       /\ \A i \in Ids :
            (i \notin exists /\ Settled(i)) => i \notin exists'
       /\ \A p \in Procs :
            (Awaiting(p, "select") /\ proc[p].id \notin exists
               /\ proc'[p].st = "ok")
            => ~proc'[p].has]_vars

C14_Witness ==
    \E p \in ReqProc :
        /\ proc[p].kind = "get" /\ proc[p].st = "done"
        /\ proc[p].resp = NotFound
        /\ proc[p].id = 1
        /\ 1 \notin exists
        /\ proc[1].kind = "exec" /\ proc[1].st = "done"
        /\ 1 \in invoked
        /\ running[1] = "absent"

\* a delete request for task i that read the row as pending or in_progress
\* has cleared the registry entry and awaits or has finished its DELETE
DeleteSignalled(i) ==
    \E p \in ReqProc :
        /\ proc[p].kind = "delete" /\ proc[p].id = i
        /\ proc[p].at = "L201"
        /\ Cancellable(proc[p].task.status)

\* C15: after delete task has signalled a pending or in_progress task, the
\* run of that task persists no completed or failed outcome, and when
\* delete task returns the registry has no entry and the store no row for
\* the identifier.
C15_DeleteSignalsExecution ==
    [][/\ \A i \in ExecProc :
            (DeleteSignalled(i) /\ proc[i].kind = "exec"
               /\ proc[i].st = "wait" /\ proc'[i].st = "ok"
               /\ proc[i].op = "commit" /\ i \in exists')
            => (db'[i].status \in {COMPLETED, FAILED}
                  => db'[i].status = db[i].status)
       /\ \A p \in ReqProc :
            (proc[p].kind = "delete" /\ Resumed(p, "L201", "ok")
               /\ Cancellable(proc[p].task.status) /\ Stepped(p))
            => /\ proc[p].id \notin exists'
               /\ running'[proc[p].id] = "absent"]_vars

\* C16: execute task that finds no row returns nothing, and execute task
\* that reads the row as cancelled returns that row; in both cases it
\* returns at once and store, registry and pipeline are left untouched.
C16_ExecuteMissingOrCancelled ==
    [][\A i \in ExecProc :
        /\ (proc[i].kind = "exec" /\ Resumed(i, "L81", "ok")
               /\ ~proc[i].has /\ Stepped(i))
           => /\ proc'[i].st = "done" /\ proc'[i].at = "L83"
              /\ proc'[i].resp = NoResp
              /\ UNCHANGED <<db, exists, running, invoked>>
        /\ (proc[i].kind = "exec" /\ Resumed(i, "L81", "ok")
               /\ proc[i].has /\ proc[i].task.status = CANCELLED
               /\ Stepped(i))
           => /\ proc'[i].st = "done" /\ proc'[i].at = "L87"
              /\ proc'[i].resp.task.task_id = i
              /\ proc'[i].resp.task.status = CANCELLED
              /\ proc'[i].resp.task.error_message
                    = proc[i].task.error_message
              /\ UNCHANGED <<db, exists, running, invoked>>]_vars

C16_Witness ==
    \E i \in ExecProc :
        /\ proc[i].kind = "exec" /\ proc[i].st = "done"
        /\ proc[i].at = "L83"
        /\ proc[i].resp = NoResp
        /\ i \notin exists
        /\ i \notin invoked
        /\ running[i] = "absent"

\* C17: the query of list all tasks loads every row of the store exactly
\* once and no other, newest first; the refresh loop keeps that list, and
\* the list returned has the same identifiers in the same order, ordered
\* by creation time descending.
C17_ListAllTasks ==
    [][\A p \in ReqProc :
        /\ (Awaiting(p, "select_all") /\ proc'[p].st = "ok")
           => LET s == proc'[p].rows IN
              /\ Len(s) = Cardinality(exists)
              /\ {s[k] : k \in 1..Len(s)} = exists
              /\ \A a, b \in 1..Len(s) :
                    a < b => db[s[a]].created_at >= db[s[b]].created_at
              /\ \A k \in 1..Len(s) : proc'[p].objs[k] = db[s[k]]
        /\ (proc[p].kind = "list" /\ proc[p].st \in {"ok", "err"}
               /\ proc'[p].st = "wait")
           => proc'[p].rows = proc[p].rows
        /\ (proc[p].kind = "list" /\ proc[p].st = "ok"
               /\ proc'[p].st = "done")
           => LET out == proc'[p].resp.tasks IN
              /\ proc'[p].resp.code = 200
              /\ Len(out) = Len(proc[p].rows)
              /\ \A k \in 1..Len(out) : out[k].task_id = proc[p].rows[k]
              /\ \A a, b \in 1..Len(out) :
                    /\ a < b => out[a].created_at >= out[b].created_at
                    /\ a # b => out[a].task_id # out[b].task_id]_vars

C17_Witness ==
    \E p \in ReqProc :
        /\ proc[p].kind = "list" /\ proc[p].st = "done"
        /\ exists = {1, 2}
        /\ Len(proc[p].resp.tasks) = 2
        /\ proc[p].resp.tasks[1].task_id = 2
        /\ proc[p].resp.tasks[2].task_id = 1
        /\ proc[p].resp.tasks[1].created_at > proc[p].resp.tasks[2].created_at
        /\ proc[p].resp.tasks[2].status = COMPLETED

\* C19: GET /tasks always answers 200: when its query or a refresh fails
\* it answers the empty list, and no step of the handler writes the store
\* or the registry.
C19_ListNeverFails ==
    [][\A p \in ReqProc :
        /\ (proc[p].kind = "list" /\ proc[p].st = "err" /\ Stepped(p))
           => /\ proc'[p].st = "done"
              /\ proc'[p].resp.code = 200
              /\ proc'[p].resp.tasks = <<>>
        /\ Returns(p, "list") => proc'[p].resp.code = 200
        /\ (proc[p].kind = "list" /\ Stepped(p))
           => UNCHANGED <<db, exists, running>>]_vars

C19_Witness ==
    \E p \in ReqProc :
        /\ proc[p].kind = "list" /\ proc[p].st = "done"
        /\ proc[p].resp.code = 200
        /\ proc[p].resp.tasks = <<>>
        /\ exists = {1, 2}
        /\ faults = 1

\* C20: GET /tasks/{task_id}, POST /tasks/{task_id}/cancel and
\* DELETE /tasks/{task_id} whose lookup finds no row answer 404
\* "Task not found" and change neither the store nor the registry; a
\* lookup finds no row exactly when the store has none for the identifier.
C20_UnknownIdentifierIs404 ==
    [][\A p \in ReqProc :
        /\ (proc[p].kind \in {"get", "cancel", "delete"}
               /\ proc[p].st = "wait" /\ proc[p].op = "select"
               /\ proc'[p].st = "ok")
           => (proc'[p].has <=> proc[p].id \in exists)
        /\ (proc[p].kind \in {"get", "cancel", "delete"}
               /\ proc[p].st = "ok"
               /\ proc[p].at \in {"M110", "L154", "L188"}
               /\ ~proc[p].has /\ Stepped(p))
           => /\ proc'[p].st = "done"
              /\ proc'[p].resp.code = 404
              /\ proc'[p].resp.detail = "Task not found"
              /\ UNCHANGED <<db, exists, running, invoked>>]_vars

C20_Witness ==
    \E p \in ReqProc :
        /\ proc[p].kind = "cancel" /\ proc[p].st = "done"
        /\ proc[p].resp.code = 404
        /\ proc[p].resp.detail = "Task not found"
        /\ proc[p].id = 2
        /\ exists = {1}
        /\ running[2] = "absent"

\* positions of the lines of t whose lowercase form contains a keyword
Matching(t, kws) == {k \in 1..Len(t) : LowerContains(t[k]) \cap kws # {}}

\* the j-th smallest position of M
Nth(M, j) == CHOOSE k \in M : Cardinality({m \in M : m <= k}) = j

Min(a, b) == IF a < b THEN a ELSE b

PostWords == {"instagram", "twitter", "linkedin", "facebook"}
IdeaWords == {"campaign", "idea"}

\* out holds the first cap matching lines of t, in order, each as it stands
\* in t
FirstMatching(out, t, kws, cap) ==
    /\ Len(out) = Min(cap, Cardinality(Matching(t, kws)))
    /\ \A j \in 1..Len(out) : out[j] = t[Nth(Matching(t, kws), j)]

\* out holds the first cap matching lines of t, in order, each stripped of
\* leading and trailing whitespace
FirstMatchingStripped(out, t, kws, cap) ==
    /\ Len(out) = Min(cap, Cardinality(Matching(t, kws)))
    /\ \A j \in 1..Len(out) : out[j] = Strip(t[Nth(Matching(t, kws), j)])

Completed == call.stage # "ready" /\ call.bundle.status = COMPLETED

\* C21 as stated: the posts are exactly the first 7 lines naming a platform
\* and the ideas exactly the first 5 lines containing campaign or idea, in
\* original order.
C21_FiltersKeepLines ==
    Completed
    => /\ FirstMatching(call.bundle.social_media_posts, call.transcript,
                        PostWords, 7)
       /\ FirstMatching(call.bundle.campaign_ideas, call.transcript,
                        IdeaWords, 5)

\* C21: the posts are the first 7 (or fewer) lines naming a platform and the
\* ideas the first 5 (or fewer) lines containing campaign or idea, in
\* original order and each stripped of leading and trailing whitespace; no
\* other line is included.
C21_FiltersKeepStrippedLines ==
    Completed
    => /\ FirstMatchingStripped(call.bundle.social_media_posts,
                                call.transcript, PostWords, 7)
       /\ FirstMatchingStripped(call.bundle.campaign_ideas,
                                call.transcript, IdeaWords, 5)

C21_Witness ==
    /\ call.stage = "returned"
    /\ call.bundle.status = COMPLETED
    /\ Len(call.transcript) = 8
    /\ Cardinality(Matching(call.transcript, PostWords)) = 8
    /\ Len(call.bundle.social_media_posts) = 7
    /\ call.bundle.social_media_posts[7] = "Twitter: news"
    /\ call.bundle.campaign_ideas = <<>>

Projected == call.stage = "projected" /\ call.row.status = COMPLETED

\* C22: for a transcript without a line containing campaign or idea the
\* extracted ideas are empty, and the record projected from the stored row
\* has no campaign_ideas sequence at all, in particular not the sequence of
\* one empty string; likewise for social_media_posts.
C22_EmptyListsProjectAbsent ==
    /\ (Completed /\ Matching(call.transcript, IdeaWords) = {})
       => call.bundle.campaign_ideas = <<>>
    /\ (Completed /\ Matching(call.transcript, PostWords) = {})
       => call.bundle.social_media_posts = <<>>
    /\ (Projected /\ Matching(call.transcript, IdeaWords) = {})
       => /\ ~call.result.campaign_ideas.present
          /\ call.result.campaign_ideas # SomeList(<<"">>)
    /\ (Projected /\ Matching(call.transcript, PostWords) = {})
       => /\ ~call.result.social_media_posts.present
          /\ call.result.social_media_posts # SomeList(<<"">>)

C22_Witness ==
    /\ Projected
    /\ call.transcript = <<"Our content strategy", "filler">>
    /\ call.bundle.campaign_ideas = <<>>
    /\ call.row.campaign_ideas = EmptyText
    /\ call.result.campaign_ideas = NoList
    /\ call.result.social_media_posts = NoList
    /\ call.result.content_strategy = call.transcript

ListColumns == {"social_media_posts", "campaign_ideas"}

Mentions(t, kws) == Matching(t, kws) # {}

\* C25: content_strategy is the whole transcript when the transcript
\* contains strategy or content and absent otherwise; blog_outline is the
\* whole transcript when it contains blog or outline and absent otherwise.
C25_WholeTranscriptOrAbsent ==
    Completed
    => /\ call.bundle.content_strategy =
             IF Mentions(call.transcript, {"strategy", "content"})
             THEN call.transcript ELSE NoText
       /\ call.bundle.blog_outline =
             IF Mentions(call.transcript, {"blog", "outline"})
             THEN call.transcript ELSE NoText

C25_Witness ==
    /\ call.stage = "returned"
    /\ call.bundle.status = COMPLETED
    /\ call.transcript = <<"filler", "Our content strategy", "">>
    /\ call.bundle.content_strategy = call.transcript
    /\ call.bundle.blog_outline = NoText

\* columns of a row beside its key
Persisted == Fields \ {"task_id"}

\* C24: every result record a request returns (get, cancel, each item of a
\* list) carries every persisted column of the row, in particular the raw
\* combined result and the language.
C24_RecordCarriesRow ==
    \A p \in ReqProc :
      (proc[p].st = "done" /\ proc[p].resp.code = 200)
      => /\ proc[p].kind \in {"get", "cancel"}
            => Persisted \subseteq DOMAIN proc[p].resp.task
         /\ proc[p].kind = "list"
            => \A k \in 1..Len(proc[p].resp.tasks) :
                 Persisted \subseteq DOMAIN proc[p].resp.tasks[k]

\* C26: a stored row never holds the empty text in social_media_posts or
\* campaign_ideas; with nothing extracted the column is absent.
C26_NoListsStoredAbsent ==
    \A i \in exists :
      /\ db[i].social_media_posts # EmptyText
      /\ db[i].campaign_ideas # EmptyText

\* C27: a stored row whose status is pending, in_progress or completed has
\* no error_message.
C27_ErrorOnlyWhenFailedOrCancelled ==
    \A i \in exists :
      db[i].status \in {PENDING, IN_PROGRESS, COMPLETED}
      => db[i].error_message = NULL

\* the run that led to this state fetched the list and could not connect
ListConnectFailed(u) == u.fetched = 1 /\ u.outcome = "connect"

\* the run that led to this state is the one Refresh Tasks asked for
ManualRefresh(u) == u.event = "rerun" /\ u.after = "refresh"

\* C28: every connect failure of the console's list call marks the backend
\* unhealthy, and once the list call's connect error has been shown in a
\* session, a further connect failure shows it again only in the run a
\* manual refresh asked for.
C28_ConnectErrorOncePerSession ==
    [][ListConnectFailed(ui')
       => /\ ui'.backend_ok = "false"
          /\ (ui.told /\ ~ManualRefresh(ui'))
             => CannotConnect \notin ui'.shown]_vars

\* C29: a submit with an empty topic shows the validation error, makes no
\* create call and leaves the success state as it was; a submit with a
\* topic makes exactly one create call and records the success
\* acknowledgment and the topic, whatever the outcome of the call.
C29_SubmitAcknowledges ==
    [][ui'.event = "submit"
       => IF ui'.topic = ""
          THEN /\ TopicRequired \in ui'.shown
               /\ ui'.posted = 0
               /\ ui'.task_created_success = ui.task_created_success
               /\ ui'.task_created_topic = ui.task_created_topic
               /\ ui'.last_task_id = ui.last_task_id
               /\ ui'.rerun = "none"
          ELSE /\ ui'.posted = 1
               /\ ui'.task_created_success
               /\ ui'.task_created_topic = ui'.topic
               /\ ui'.rerun = "submit"]_vars

C29_Witness ==
    /\ ui.event = "submit"
    /\ ui.topic = "Launch eco-friendly product line"
    /\ ui.outcome = "timeout"
    /\ ui.posted = 1
    /\ ui.task_created_success
    /\ ui.task_created_topic = ui.topic
    /\ ui.last_task_id = NoId

\* identifiers of the entries of a list
IdsOf(list) == {list[k].task_id : k \in 1..Len(list)} \ {NoId}

\* position of the first entry of list with identifier id
FirstAt(list, id) ==
    CHOOSE k \in 1..Len(list) :
      /\ list[k].task_id = id
      /\ \A j \in 1..(k - 1) : list[j].task_id # id

\* C30: the list View Tasks renders from a list it received has no two
\* entries with the same task_id, each entry is the first one of the
\* received list with its identifier, the entries keep their relative
\* order, and every identifier of the received list appears.
C30_DedupKeepsFirst ==
    (ui.fetched = 1 /\ ui.outcome = "ok")
    => LET in == ui.listed
           out == ui.tasks
       IN /\ \A j, k \in 1..Len(out) :
               j # k => out[j].task_id # out[k].task_id
          /\ \A k \in 1..Len(out) :
               /\ out[k].task_id \in IdsOf(in)
               /\ out[k] = in[FirstAt(in, out[k].task_id)]
          /\ \A j, k \in 1..Len(out) :
               j < k => FirstAt(in, out[j].task_id)
                          < FirstAt(in, out[k].task_id)
          /\ IdsOf(out) = IdsOf(in)

C30_Witness ==
    /\ ui.fetched = 1
    /\ ui.outcome = "ok"
    /\ ui.listed = <<[task_id |-> 2, status |-> PENDING],
                     [task_id |-> 1, status |-> COMPLETED],
                     [task_id |-> 2, status |-> COMPLETED]>>
    /\ ui.tasks = <<[task_id |-> 2, status |-> PENDING],
                    [task_id |-> 1, status |-> COMPLETED]>>

\* C31: every rendered card offers view, offers cancel and refresh exactly
\* when its status is pending or in_progress and delete exactly when its
\* status is completed, failed or cancelled; and a cancel call the console
\* makes is for a task the same run displays as pending or in_progress, a
\* delete call for a task it displays as completed, failed or cancelled.
C31_ControlsByStatus ==
    /\ Len(ui.cards) = Len(ui.tasks)
    /\ \A k \in 1..Len(ui.cards) :
         LET c == ui.cards[k]
         IN /\ "view" \in c.controls
            /\ "cancel" \in c.controls
                 <=> c.status \in {PENDING, IN_PROGRESS}
            /\ "refresh" \in c.controls
                 <=> c.status \in {PENDING, IN_PROGRESS}
            /\ "delete" \in c.controls
                 <=> c.status \in {COMPLETED, FAILED, CANCELLED}
    /\ ui.detail # <<>>
       => /\ "cancel" \in ui.buttons
               <=> ui.detail[1].status \in {PENDING, IN_PROGRESS}
          /\ "delete" \in ui.buttons
               <=> ui.detail[1].status \in {COMPLETED, FAILED, CANCELLED}
    /\ ui.called.op = "cancel"
       => ui.called.status \in {PENDING, IN_PROGRESS}
    /\ ui.called.op = "delete"
       => ui.called.status \in {COMPLETED, FAILED, CANCELLED}

C31_Witness ==
    /\ ui.page = "View Tasks"
    /\ ui.event = "card"
    /\ ui.called = [op |-> "delete", id |-> 1, status |-> FAILED,
                    outcome |-> "timeout"]
    /\ Len(ui.cards) = 1
    /\ ui.cards[1].controls = {"view", "delete"}
    /\ TimedOut \in ui.shown

\* request p has returned the row of task i as cancelled
CancelAccepted(p, i) ==
    /\ proc[p].kind = "cancel"
    /\ proc[p].st = "done"
    /\ proc[p].id = i
    /\ proc[p].resp.code = 200
    /\ proc[p].resp.task.status = CANCELLED

\* C32: once a cancel request has returned the row of a task as cancelled
\* while the pipeline service had not been invoked for that task, the
\* pipeline service is not invoked for it and its stored status stays
\* cancelled.
C32_AcceptedCancelNotLost ==
    [][\A p \in ReqProc, i \in Ids :
         (CancelAccepted(p, i)' /\ i \notin invoked)
         => /\ i \notin invoked'
            /\ i \in exists' => db'[i].status = CANCELLED]_vars

\* the row of task i was created and is no longer stored
Gone(i) == Settled(i) /\ i \notin exists

\* C33: a task whose row has been deleted has no row in any later state:
\* a commit of the task's execution that carries changes (either status
\* write, the result write, the exception path, the failure sink) fails
\* and leaves the store as it is, a failure sink that finds no row writes
\* nothing, and every later lookup of the identifier finds nothing.
C33_DeletedNeverReappears ==
    [][\A i \in Ids :
         Gone(i)
         => /\ i \notin exists'
            /\ db'[i] = db[i]
            /\ (proc[i].kind = "exec" /\ Awaiting(i, "commit")
                   /\ proc[i].dirty # {} /\ Stepped(i))
               => proc'[i].st = "err"
            /\ (proc[i].kind = "exec" /\ Resumed(i, "L68", "ok")
                   /\ ~proc[i].has /\ Stepped(i))
               => proc'[i].st = "done"
            /\ \A q \in Procs :
                 (Awaiting(q, "select") /\ proc[q].id = i
                    /\ proc'[q].st = "ok")
                 => ~proc'[q].has]_vars

C33_Witness ==
    /\ 1 \notin exists
    /\ \E p \in ReqProc :
         /\ proc[p].kind = "delete" /\ proc[p].st = "done"
         /\ proc[p].resp = Deleted(1)
    /\ proc[1].kind = "exec" /\ Resumed(1, "L130", "err")
    /\ proc[1].exc = StaleError
    /\ 1 \in invoked

\* no execution of task i is under way
NotExecuting(i) == proc[i].kind = "exec" => proc[i].st = "done"

\* C34: when the row of a task has been deleted and no execution of the
\* task is under way, the registry has no entry for the task.
C34_NoRegistryLeakAfterDelete ==
    \A i \in Ids :
      (Gone(i) /\ NotExecuting(i)) => running[i] = "absent"

\* C35: with a database that answers and fair scheduling, every row that is
\* in the table eventually has status completed, failed or cancelled, or is
\* no longer in the table, whatever cancel and delete requests interleave.
C35_EveryRowTerminates ==
    \A i \in Ids :
      (i \in exists) ~> (i \notin exists \/ db[i].status \in {COMPLETED, FAILED, CANCELLED})

\* a run of task 1 ended with the pipeline's outcome stored, after a cancel
\* request for the task had been answered with the row as cancelled
C35_Witness ==
    /\ 1 \in exists
    /\ db[1].status \in {COMPLETED, FAILED}
    /\ proc[1].kind = "exec"
    /\ proc[1].st = "done"
    /\ \E p \in ReqProc : CancelAccepted(p, 1)

\* C36: a row whose status is cancelled carries no pipeline output: result,
\* content_strategy, social_media_posts, blog_outline and campaign_ideas
\* are all absent.
C36_CancelledRowHasNoOutput ==
    \A i \in exists :
      db[i].status = CANCELLED
        => /\ db[i].result = NoText
           /\ db[i].content_strategy = NoText
           /\ db[i].social_media_posts = NoText
           /\ db[i].blog_outline = NoText
           /\ db[i].campaign_ideas = NoText

\* C37: a step of execute task, cancel task or delete task for identifier A
\* leaves the stored row and the registry entry of every other identifier B
\* as they were.
C37_OtherTasksUntouched ==
    [][\A p \in Procs, b \in Ids :
        (/\ proc[p].kind \in {"exec", "cancel", "delete"}
         /\ proc[p].id # b
         /\ Stepped(p))
        => /\ db'[b] = db[b]
           /\ (b \in exists') = (b \in exists)
           /\ running'[b] = running[b]]_vars

\* task 1 was deleted and its run is over, while the row of task 2 is in
\* the table, in progress, with its run registered
C37_Witness ==
    /\ 1 \notin exists
    /\ \E p \in ReqProc :
          /\ proc[p].kind = "delete" /\ proc[p].st = "done"
          /\ proc[p].resp = Deleted(1)
    /\ proc[1].kind = "exec" /\ proc[1].st = "done"
    /\ 2 \in exists
    /\ db[2].status = IN_PROGRESS
    /\ running[2] = "true"

====
